---- MODULE Spec2Model ----
(***************************************************************************)
(* Model of the business-card API: the campaign send handler               *)
(* (POST /api/email/campaigns) over the email_campaigns and sent_emails    *)
(* tables, and the retrying vision extraction (MistralService).            *)
(***************************************************************************)
EXTENDS Integers, Sequences, FiniteSets, TLC

(* ------------------------------ bounds -------------------------------- *)

\* longest cardIds list a request body carries
MaxCardIds == 3
\* most pool.query rejections (database faults) injected in one behaviour
MaxDbFaults == 2

(* ------------------------- values and fixtures ------------------------ *)

NULL == "NULL"

\* concurrent HTTP requests to POST /campaigns (each runs the handler once)
Reqs == {"r1", "r2"}

Users == {1, 2}

\* business_cards rows: cards 1..3 belong to user 1 (1 and 2 share one
\* email address), card 4 to user 2
business_cards ==
  (1 :> [id |-> 1, user_id |-> 1, email |-> "ann@x.com", name |-> "Ann A"]) @@
  (2 :> [id |-> 2, user_id |-> 1, email |-> "ann@x.com", name |-> "Ann B"]) @@
  (3 :> [id |-> 3, user_id |-> 1, email |-> "cy@z.com",  name |-> "Cy"]) @@
  (4 :> [id |-> 4, user_id |-> 2, email |-> "bob@y.com", name |-> "Bob"])

\* ids a request may name: the four cards and an id of no card
IdPool == (DOMAIN business_cards) \cup {5}

\* ids the campaign INSERTs can get: one campaign per request at most
CampaignIds == 1..Cardinality(Reqs)

\* message of the exception gmailService.sendEmail catches
SendErrors == {"Invalid Credentials"}
\* message of a rejected pool.query
DbError == "ER_DB_FAULT"

VARIABLES
  req,              \* per request: the handler's locals and pending await
  email_campaigns,  \* table email_campaigns, a row's id is its index
  sent_emails,      \* table sent_emails: per campaign_id, its rows in
                    \* insertion order
  events,           \* per request: history of sends, stored rows and delays
  dbFaults,         \* number of pool.query rejections so far
  mistral,          \* MistralService: its apiKey and one extractCardInfo call
  single,           \* a single-attempt extractor (openaiService in its two
                    \* revisions, geminiService) and one extractCardInfo call
  scan,             \* one POST /api/cards/scan request and the rows it stored
  render,           \* one call of replaceParameters: arguments and result
  mime,             \* one call of detectMimeType: arguments and result
  gauth,            \* the GoogleAuthService singleton, its oauth2Client and
                    \* the requests that go through it
  cardApi           \* table business_cards as the card routes see it and
                    \* the requests of those routes

campaignVars == <<req, email_campaigns, sent_emails, events, dbFaults>>

\* what the campaign route never touches
extractionVars == <<mistral, single, scan>>

\* what neither the campaign route nor the extractors touch
otherVars == <<render, mime, gauth, cardApi>>

vars ==
  <<req, email_campaigns, sent_emails, events, dbFaults, mistral, single, scan,
    render, mime, gauth, cardApi>>

(* ------------------------------ helpers ------------------------------- *)

\* nondecreasing id lists of length 0..MaxCardIds: the query uses cardIds
\* only through IN (...) and .length, so the order of the ids is immaterial
CardIdLists ==
  { s \in UNION { [1..n -> IdPool] : n \in 0..MaxCardIds } :
      \A k \in 1..(Len(s) - 1) : s[k] <= s[k + 1] }

Range(s) == { s[k] : k \in DOMAIN s }

RECURSIVE SortedSeq(_)
SortedSeq(S) ==
  IF S = {} THEN <<>>
  ELSE LET m == CHOOSE x \in S : \A y \in S : x <= y
       IN <<m>> \o SortedSeq(S \ {m})

\* faulty variant: the query lacks AND user_id = ?
SelectCardsAnyUser(cardIds, user) ==
  LET order == SortedSeq(Range(cardIds) \cap DOMAIN business_cards)
  IN [k \in 1..Len(order) |-> business_cards[order[k]]]

\* SELECT * FROM business_cards WHERE id IN (cardIds) AND user_id = ?
\* (rows come back in primary-key order)
SelectCards(cardIds, user) ==
  LET ids == { c \in DOMAIN business_cards :
                 c \in Range(cardIds) /\ business_cards[c].user_id = user }
      order == SortedSeq(ids)
  IN [k \in 1..Len(order) |-> business_cards[order[k]]]

\* const recipients = cards.map(card => ({id, email, name, ...}))
Recipients(cards) ==
  [k \in 1..Len(cards) |->
     [id |-> cards[k].id, email |-> cards[k].email, name |-> cards[k].name]]

IdleReq ==
  [pc |-> "idle", user |-> 0, cardIds |-> <<>>, cards |-> <<>>,
   campaignId |-> 0, recipients |-> <<>>, i |-> 0,
   sentCount |-> 0, failedCount |-> 0, sendResults |-> <<>>,
   emailResult |-> NULL, error |-> NULL, response |-> NULL]

\* res.status(code).json({success: false, ...})
ErrorResponse(code) == [status |-> code, success |-> FALSE]

\* res.json({success: true, campaign: {...}, results: sendResults})
CampaignResponse(q) ==
  [status |-> 200, success |-> TRUE,
   sentCount |-> q.sentCount, failedCount |-> q.failedCount,
   totalRecipients |-> Len(q.cards), results |-> q.sendResults]

\* new MistralService() with this.apiKey = key, no extraction started
IdleMistral(key) ==
  [pc |-> "idle", apiKey |-> key, attempt |-> 0, calls |-> 0,
   waits |-> <<>>, outcomes |-> <<>>, result |-> NULL]

\* no single-attempt extractor is in use
OffSingle ==
  [pc |-> "off", service |-> NULL, apiKey |-> [t |-> "undefined"], file |-> FALSE,
   calls |-> 0, outcome |-> NULL, result |-> NULL]

\* no scan request is in flight
OffScan ==
  [pc |-> "off", route |-> NULL, file |-> FALSE, inserted |-> <<>>, status |-> 0]

\* no call of replaceParameters or detectMimeType, no request through the
\* GoogleAuthService and no card request is looked at
OffRender == [pc |-> "off"]
OffMime == [pc |-> "off"]
OffGauth == [pc |-> "off"]
OffCardApi == [pc |-> "off"]

OthersOff ==
  /\ render = OffRender
  /\ mime = OffMime
  /\ gauth = OffGauth
  /\ cardApi = OffCardApi

\* empty tables after the migration, no request in flight
InitCampaign ==
  /\ req = [r \in Reqs |-> IdleReq]
  /\ email_campaigns = <<>>
  /\ sent_emails = [c \in CampaignIds |-> <<>>]
  /\ events = [r \in Reqs |-> <<>>]
  /\ dbFaults = 0

Init ==
  /\ InitCampaign
  /\ OthersOff
  /\ mistral = IdleMistral("sk-live")
  /\ single = OffSingle
  /\ scan = OffScan

(* ---------------------- POST /api/email/campaigns --------------------- *)

\* the request arrives; the body is validated and the card query issued
PostCampaigns(r) ==
  /\ req[r].pc = "idle"
  /\ \E user \in Users, fieldsPresent \in BOOLEAN, cardIds \in CardIdLists :
       IF ~fieldsPresent \/ Len(cardIds) = 0
       THEN req' = [req EXCEPT ![r].pc = "done", ![r].user = user,
                               ![r].response = ErrorResponse(400)]
       ELSE req' = [req EXCEPT ![r].pc = "await_select", ![r].user = user,
                               ![r].cardIds = cardIds]
  /\ UNCHANGED <<email_campaigns, sent_emails, events, dbFaults, extractionVars, otherVars>>

\* outer catch: res.status(500).json({success: false, ...})
Fail500(r) ==
  req' = [req EXCEPT ![r].pc = "done", ![r].response = ErrorResponse(500)]

\* a pool.query promise rejects (connection lost, constraint, deadlock)
DbRejects ==
  /\ dbFaults < MaxDbFaults
  /\ dbFaults' = dbFaults + 1

\* the card query resolves: 404 when no owned card matches, else the
\* campaign INSERT is issued
SelectResolves(r) ==
  /\ req[r].pc = "await_select"
  /\ LET cards == SelectCards(req[r].cardIds, req[r].user)
     IN IF Len(cards) = 0
        THEN req' = [req EXCEPT ![r].pc = "done",
                                ![r].response = ErrorResponse(404)]
        ELSE req' = [req EXCEPT ![r].pc = "await_insert_campaign",
                                ![r].cards = cards]
  /\ UNCHANGED <<email_campaigns, sent_emails, events, dbFaults, extractionVars, otherVars>>

SelectRejects(r) ==
  /\ req[r].pc = "await_select"
  /\ DbRejects
  /\ Fail500(r)
  /\ UNCHANGED <<email_campaigns, sent_emails, events, extractionVars, otherVars>>

\* INSERT INTO email_campaigns (..., total_recipients, status, started_at)
\* VALUES (..., cards.length, 'in_progress', NOW())
NewCampaignRow(user, cards) ==
  [user_id |-> user, total_recipients |-> Len(cards),
   sent_count |-> 0, failed_count |-> 0, status |-> "in_progress"]

\* the campaign INSERT resolves: campaignId = insertId, the recipients are
\* prepared, the counters reset and the first send is invoked (cardIds is
\* not read again and is dropped from the state)
InsertCampaignResolves(r) ==
  /\ req[r].pc = "await_insert_campaign"
  /\ email_campaigns' =
       Append(email_campaigns, NewCampaignRow(req[r].user, req[r].cards))
  /\ req' = [req EXCEPT ![r].pc = "await_send",
                        ![r].campaignId = Len(email_campaigns) + 1,
                        ![r].recipients = Recipients(req[r].cards),
                        ![r].cardIds = <<>>,
                        ![r].sendResults = <<>>,
                        ![r].sentCount = 0, ![r].failedCount = 0,
                        ![r].i = 1]
  /\ events' = [events EXCEPT ![r] = Append(@, <<"send", 1>>)]
  /\ UNCHANGED <<sent_emails, dbFaults, extractionVars, otherVars>>

InsertCampaignRejects(r) ==
  /\ req[r].pc = "await_insert_campaign"
  /\ DbRejects
  /\ Fail500(r)
  /\ UNCHANGED <<email_campaigns, sent_emails, events, extractionVars, otherVars>>

\* what gmailService.sendEmail can return: it catches every exception of
\* the token refresh and of the Gmail call and returns it as a failure
SendEmailResults ==
  { [success |-> TRUE, messageId |-> "msg", error |-> NULL] } \cup
  { [success |-> FALSE, messageId |-> NULL, error |-> e] : e \in SendErrors }

\* if (emailResult.success) sentCount++; else failedCount++;
CountResult(q, emailResult) ==
  IF emailResult.success
  THEN [q EXCEPT !.sentCount = q.sentCount + 1]
  ELSE [q EXCEPT !.failedCount = q.failedCount + 1]

\* gmailService.sendEmail returns for recipients[i]: the counter is bumped
\* and the sent_emails INSERT is issued
SendEmailReturns(r) ==
  /\ req[r].pc = "await_send"
  /\ \E emailResult \in SendEmailResults :
       req' = [req EXCEPT ![r] =
                 [CountResult(@, emailResult) EXCEPT
                    !.pc = "await_insert_sent", !.emailResult = emailResult]]
  /\ events' = [events EXCEPT ![r] = Append(@, <<"returned", req[r].i>>)]
  /\ UNCHANGED <<email_campaigns, sent_emails, dbFaults, extractionVars, otherVars>>

\* the row of the try branch: status from emailResult.success,
\* error_message = emailResult.error || null
SentRow(q) ==
  [campaign_id |-> q.campaignId, card_id |-> q.recipients[q.i].id,
   recipient_email |-> q.recipients[q.i].email,
   status |-> IF q.emailResult.success THEN "sent" ELSE "failed",
   error_message |-> q.emailResult.error]

\* the row of the catch branch: status 'failed', error_message = error.message
FailedRow(q) ==
  [campaign_id |-> q.campaignId, card_id |-> q.recipients[q.i].id,
   recipient_email |-> q.recipients[q.i].email,
   status |-> "failed", error_message |-> q.error]

\* INSERT INTO sent_emails (...) VALUES (...): one new row
InsertRow(tbl, row) ==
  [tbl EXCEPT ![row.campaign_id] = Append(@, row)]

\* sendResults.push({recipientId, email, success, messageId, error})
ResultEntry(q) ==
  [recipientId |-> q.recipients[q.i].id, email |-> q.recipients[q.i].email,
   success |-> q.emailResult.success, messageId |-> q.emailResult.messageId,
   error |-> q.emailResult.error]

\* the sent_emails INSERT of the try branch resolves: the result is pushed
\* and the pacing timer started
InsertSentResolves(r) ==
  /\ req[r].pc = "await_insert_sent"
  /\ sent_emails' = InsertRow(sent_emails, SentRow(req[r]))
  /\ req' = [req EXCEPT ![r].pc = "await_delay",
                        ![r].sendResults = Append(@, ResultEntry(req[r]))]
  /\ events' = [events EXCEPT ![r] = Append(@, <<"row", req[r].i>>)]
  /\ UNCHANGED <<email_campaigns, dbFaults, extractionVars, otherVars>>

\* end of one loop iteration: the next recipient's send is invoked, or
\* after the last one the campaign UPDATE is issued
NextIteration(q) ==
  IF q.i < Len(q.recipients)
  THEN [q EXCEPT !.pc = "await_send", !.i = q.i + 1,
                 !.emailResult = NULL, !.error = NULL]
  ELSE [q EXCEPT !.pc = "await_update", !.emailResult = NULL, !.error = NULL]

NextIterationEvents(q, ev) ==
  IF q.i < Len(q.recipients) THEN Append(ev, <<"send", q.i + 1>>) ELSE ev

\* faulty variant: the per-recipient catch only counts the failure and goes
\* on to the next recipient without storing a row
InsertSentRejectsNoRow(r) ==
  /\ req[r].pc = "await_insert_sent"
  /\ DbRejects
  /\ req' = [req EXCEPT ![r] = NextIteration([@ EXCEPT !.failedCount = @ + 1])]
  /\ events' = [events EXCEPT ![r] = NextIterationEvents(req[r], @)]
  /\ UNCHANGED <<email_campaigns, sent_emails, extractionVars, otherVars>>

\* the INSERT of the try branch rejects: the per-recipient catch runs,
\* failedCount++ and the 'failed' row INSERT is issued
InsertSentRejects(r) ==
  /\ req[r].pc = "await_insert_sent"
  /\ DbRejects
  /\ req' = [req EXCEPT ![r].pc = "await_insert_failed",
                        ![r].error = DbError,
                        ![r].failedCount = @ + 1]
  /\ UNCHANGED <<email_campaigns, sent_emails, events, extractionVars, otherVars>>

\* await new Promise(resolve => setTimeout(resolve, 1000)) elapses
DelayElapses(r) ==
  /\ req[r].pc = "await_delay"
  /\ req' = [req EXCEPT ![r] = NextIteration(@)]
  /\ events' = [events EXCEPT ![r] =
                  NextIterationEvents(req[r], Append(@, <<"delay", req[r].i>>))]
  /\ UNCHANGED <<email_campaigns, sent_emails, dbFaults, extractionVars, otherVars>>

\* the INSERT of the catch branch resolves: the loop goes on (no push onto
\* sendResults and no pacing delay on this path)
InsertFailedResolves(r) ==
  /\ req[r].pc = "await_insert_failed"
  /\ sent_emails' = InsertRow(sent_emails, FailedRow(req[r]))
  /\ req' = [req EXCEPT ![r] = NextIteration(@)]
  /\ events' = [events EXCEPT ![r] =
                  NextIterationEvents(req[r], Append(@, <<"row", req[r].i>>))]
  /\ UNCHANGED <<email_campaigns, dbFaults, extractionVars, otherVars>>

\* the INSERT of the catch branch rejects: the exception leaves the loop
\* and reaches the handler's outer catch
InsertFailedRejects(r) ==
  /\ req[r].pc = "await_insert_failed"
  /\ DbRejects
  /\ Fail500(r)
  /\ UNCHANGED <<email_campaigns, sent_emails, events, extractionVars, otherVars>>

\* faulty variant: the UPDATE without its WHERE id = ? clause
UpdateCampaignNoWhere(tbl, id, sentCount, failedCount) ==
  [c \in DOMAIN tbl |-> [tbl[c] EXCEPT !.sent_count = sentCount,
                                       !.failed_count = failedCount,
                                       !.status = "completed"]]

\* UPDATE email_campaigns SET sent_count = ?, failed_count = ?,
\* status = 'completed', completed_at = NOW() WHERE id = ?
UpdateCampaign(tbl, id, sentCount, failedCount) ==
  [tbl EXCEPT ![id] = [@ EXCEPT !.sent_count = sentCount,
                                !.failed_count = failedCount,
                                !.status = "completed"]]

\* the campaign UPDATE resolves and the 200 response is sent
UpdateResolves(r) ==
  /\ req[r].pc = "await_update"
  /\ email_campaigns' = UpdateCampaign(email_campaigns, req[r].campaignId,
                                       req[r].sentCount, req[r].failedCount)
  /\ req' = [req EXCEPT ![r].pc = "done",
                        ![r].response = CampaignResponse(req[r])]
  /\ UNCHANGED <<sent_emails, events, dbFaults, extractionVars, otherVars>>

UpdateRejects(r) ==
  /\ req[r].pc = "await_update"
  /\ DbRejects
  /\ Fail500(r)
  /\ UNCHANGED <<email_campaigns, sent_emails, events, extractionVars, otherVars>>

NextCampaign ==
  \E r \in Reqs :
    \/ PostCampaigns(r)
    \/ SelectResolves(r)
    \/ SelectRejects(r)
    \/ InsertCampaignResolves(r)
    \/ InsertCampaignRejects(r)
    \/ SendEmailReturns(r)
    \/ InsertSentResolves(r)
    \/ InsertSentRejects(r)
    \/ DelayElapses(r)
    \/ InsertFailedResolves(r)
    \/ InsertFailedRejects(r)
    \/ UpdateResolves(r)
    \/ UpdateRejects(r)

SpecCampaign == Init /\ [][NextCampaign]_vars

(* ----------------------- field normalizer (Mistral) ------------------ *)

\* A JSON field value as JavaScript sees it: undefined (key absent), null,
\* a number (truthy non-string) or a string, kept as its characters.
Undefined == [t |-> "undefined"]
JsNull == [t |-> "null"]
JsNumber == [t |-> "number"]
Str(chars) == [t |-> "string", v |-> chars]
\* the outcome of a cleaner that raised (TypeError: str.trim is not a function)
Threw == [t |-> "threw"]

IsStr(x) == x.t = "string"
Empty == Str(<<>>)

Whitespace == {" "}

UpperToLower ==
  ("A" :> "a") @@ ("B" :> "b") @@ ("C" :> "c") @@ ("E" :> "e") @@
  ("F" :> "f") @@ ("G" :> "g") @@ ("H" :> "h") @@ ("I" :> "i") @@
  ("J" :> "j") @@ ("L" :> "l") @@ ("M" :> "m") @@ ("N" :> "n") @@
  ("O" :> "o") @@ ("P" :> "p") @@ ("W" :> "w") @@ ("X" :> "x")

\* String.prototype.toLowerCase
ToLowerCase(cs) ==
  [k \in DOMAIN cs |->
     IF cs[k] \in DOMAIN UpperToLower THEN UpperToLower[cs[k]] ELSE cs[k]]

RECURSIVE TrimStart(_)
TrimStart(cs) ==
  IF cs # <<>> /\ cs[1] \in Whitespace THEN TrimStart(Tail(cs)) ELSE cs

RECURSIVE TrimEnd(_)
TrimEnd(cs) ==
  IF cs # <<>> /\ cs[Len(cs)] \in Whitespace
  THEN TrimEnd(SubSeq(cs, 1, Len(cs) - 1))
  ELSE cs

\* String.prototype.trim
Trim(cs) == TrimEnd(TrimStart(cs))

\* !x : undefined, null and the empty string are falsy
Falsy(x) == x.t \in {"undefined", "null"} \/ (IsStr(x) /\ x.v = <<>>)

WordNull == <<"n", "u", "l", "l">>
WordUndefined == <<"u", "n", "d", "e", "f", "i", "n", "e", "d">>
WordNA == <<"N", "/", "A">>
WordNaLower == <<"n", "/", "a">>

\* cleanString(str)
cleanString(str) ==
  IF Falsy(str) THEN Empty
  ELSE IF ~IsStr(str) THEN Threw
  ELSE IF str.v \in {WordNull, WordUndefined, WordNA, WordNaLower} THEN Empty
  ELSE Str(Trim(str.v))

\* /^[^\s@]+@[^\s@]+\.[^\s@]+$/.test(cs)
EmailRegexTest(cs) ==
  \E a \in DOMAIN cs, d \in DOMAIN cs :
    /\ cs[a] = "@" /\ cs[d] = "."
    /\ 1 < a /\ a + 1 < d /\ d < Len(cs)
    /\ \A k \in DOMAIN cs : cs[k] \notin Whitespace /\ (cs[k] = "@" => k = a)

\* cleanEmail(email)
cleanEmail(email) ==
  IF Falsy(email) THEN Empty
  ELSE IF ~IsStr(email) THEN Threw
  ELSE IF email.v \in {WordNull, WordUndefined, WordNA} THEN Empty
  ELSE LET e == ToLowerCase(Trim(email.v))
       IN IF EmailRegexTest(e) THEN Str(e) ELSE Empty

\* cs.replace(/\s+/g, ' ')
RECURSIVE CollapseSpaces(_)
CollapseSpaces(cs) ==
  IF cs = <<>> THEN <<>>
  ELSE IF cs[1] \in Whitespace
       THEN <<" ">> \o CollapseSpaces(TrimStart(cs))
       ELSE <<cs[1]>> \o CollapseSpaces(Tail(cs))

\* cleanPhone(phone)
cleanPhone(phone) ==
  IF Falsy(phone) THEN Empty
  ELSE IF ~IsStr(phone) THEN Threw
  ELSE IF phone.v \in {WordNull, WordUndefined, WordNA} THEN Empty
  ELSE Str(CollapseSpaces(Trim(phone.v)))

StartsWith(cs, prefix) ==
  Len(cs) >= Len(prefix) /\ SubSeq(cs, 1, Len(prefix)) = prefix

PrefixHttp == <<"h", "t", "t", "p">>
PrefixHttps == <<"h", "t", "t", "p", "s", ":", "/", "/">>
PrefixWww == <<"w", "w", "w", ".">>

\* cs.replace(/^www\./, '')
StripWww(cs) ==
  IF StartsWith(cs, PrefixWww) THEN SubSeq(cs, Len(PrefixWww) + 1, Len(cs)) ELSE cs

\* cleanWebsite(website)
cleanWebsite(website) ==
  IF Falsy(website) THEN Empty
  ELSE IF ~IsStr(website) THEN Threw
  ELSE IF website.v \in {WordNull, WordUndefined, WordNA} THEN Empty
  ELSE LET w == ToLowerCase(Trim(website.v))
       IN IF w # <<>> /\ ~StartsWith(w, PrefixHttp)
          THEN Str(PrefixHttps \o StripWww(w))
          ELSE Str(w)

Fields == {"name", "email", "phone", "company", "job_title", "address", "website"}

\* the all-empty data of the fallback, rate-limit and invalid-key results
EmptyData == [f \in Fields |-> Empty]

\* cleanedData = {name: cleanString(extractedData.name), ...}
CleanedData(extractedData) ==
  [name |-> cleanString(extractedData.name),
   email |-> cleanEmail(extractedData.email),
   phone |-> cleanPhone(extractedData.phone),
   company |-> cleanString(extractedData.company),
   job_title |-> cleanString(extractedData.job_title),
   address |-> cleanString(extractedData.address),
   website |-> cleanWebsite(extractedData.website)]

\* "not-an-email"
NotAnEmail == <<"n", "o", "t", "-", "a", "n", "-", "e", "m", "a", "i", "l">>

\* "JOHN@EXAMPLE.COM " and "john@example.com"
JohnUpper ==
  <<"J", "O", "H", "N", "@", "E", "X", "A", "M", "P", "L", "E", ".", "C", "O", "M", " ">>
JohnLower ==
  <<"j", "o", "h", "n", "@", "e", "x", "a", "m", "p", "l", "e", ".", "c", "o", "m">>

\* "example.com", "www.example.com" and "https://example.com"
ExampleCom == <<"e", "x", "a", "m", "p", "l", "e", ".", "c", "o", "m">>
WwwExampleCom == PrefixWww \o ExampleCom
HttpsExampleCom == PrefixHttps \o ExampleCom

\* objects the provider's JSON can parse to: a filled card with untidy
\* values, an empty object, a card whose name is a number, cards that
\* carry only an email, one not an address and one in capitals, and cards
\* that carry only a website, bare, with www. and with its scheme
ParsedCards ==
  { [name |-> Str(<<" ", "J", "o">>),
     email |-> Str(<<"J", "O", "@", "X", ".", "C", "O", " ">>),
     phone |-> Str(<<"1", " ", " ", "2">>),
     company |-> Str(WordNA),
     job_title |-> JsNull,
     address |-> Str(WordNull),
     website |-> Str(<<"W", "W", "W", ".", "x", ".", "c", "o">>)],
    [f \in Fields |-> Undefined],
    [[f \in Fields |-> Undefined] EXCEPT !.name = JsNumber],
    [[f \in Fields |-> Undefined] EXCEPT !.email = Str(NotAnEmail)],
    [[f \in Fields |-> Undefined] EXCEPT !.email = Str(JohnUpper)],
    [[f \in Fields |-> Undefined] EXCEPT !.website = Str(ExampleCom)],
    [[f \in Fields |-> Undefined] EXCEPT !.website = Str(WwwExampleCom)],
    [[f \in Fields |-> Undefined] EXCEPT !.website = Str(HttpsExampleCom)] }

(* ------------------- MistralService.extractCardInfo ------------------- *)

\* faulty variant: one retry too many
maxRetriesPlusOne == 3 + 1

\* const maxRetries = 3
maxRetries == 3

\* values of process.env.MISTRAL_API_KEY: unset, the two placeholders of the
\* sample configuration, a real key
ApiKeys == {NULL, "your_mistral_api_key", "your-mistral-api-key", "sk-live"}

\* !this.apiKey || this.apiKey === 'your_mistral_api_key' || ...
KeyNotConfigured(key) ==
  key \in {NULL, "your_mistral_api_key", "your-mistral-api-key"}

\* The text of a 2xx response, by the features the parser looks at: whether
\* choices[0].message.content is there, whether it is wrapped in a ``` fence,
\* and whether it holds no {...} span ("prose"), a span that is not JSON
\* ("malformed") or a JSON object ("object", parsing to `parsed`).
ResponseTexts ==
  { [content |-> "missing", fenced |-> FALSE, parsed |-> [f \in Fields |-> Undefined]] }
  \cup
  { [content |-> c, fenced |-> b, parsed |-> [f \in Fields |-> Undefined]] :
      c \in {"prose", "malformed"}, b \in BOOLEAN }
  \cup
  { [content |-> "object", fenced |-> b, parsed |-> p] :
      b \in BOOLEAN, p \in ParsedCards }

NoText == [content |-> "missing", fenced |-> FALSE, parsed |-> [f \in Fields |-> Undefined]]

\* How one pass through the try block can go: fs.readFileSync throws (no
\* request is made), axios.post rejects without a response (timeout, network),
\* rejects with an HTTP error response (status, data.code), or resolves.
ProviderOutcomes ==
  { [kind |-> "read_error", status |-> 0, code |-> "none", text |-> NoText],
    [kind |-> "no_response", status |-> 0, code |-> "none", text |-> NoText] }
  \cup
  { [kind |-> "http_error", status |-> sc[1], code |-> sc[2], text |-> NoText] :
      sc \in { <<429, "none">>, <<429, "1300">>, <<400, "1300">>,
               <<401, "none">>, <<500, "none">> } }
  \cup
  { [kind |-> "response", status |-> 200, code |-> "none", text |-> t] :
      t \in ResponseTexts }

\* cleanedText.replace(/```json\n?/g, '').replace(/```\n?/g, '')
StripFences(text) == [text EXCEPT !.fenced = FALSE]

\* cleanedText.match(/\{[\s\S]*\}/)
JsonMatch(text) == text.content \in {"malformed", "object"}

\* the try block runs to its return: text present, a {...} span found,
\* JSON.parse succeeds and no cleaner throws
Succeeds(o) ==
  /\ o.kind = "response"
  /\ o.text.content # "missing"
  /\ JsonMatch(StripFences(o.text))
  /\ o.text.content = "object"
  /\ \A f \in Fields : CleanedData(o.text.parsed)[f] # Threw

\* the caught error as the catch block reads it: error.response?.status and
\* error.response?.data?.code (0 / "none" when there is no response)
CaughtError(o) ==
  IF o.kind = "http_error"
  THEN [status |-> o.status, code |-> o.code]
  ELSE [status |-> 0, code |-> "none"]

\* faulty variant: only the HTTP status is looked at
IsRateLimitStatusOnly(error) == error.status = 429

\* error.response?.status === 429 || error.response?.data?.code === '1300'
IsRateLimit(error) == error.status = 429 \/ error.code = "1300"

\* faulty variant: the invalid key is looked for under HTTP 403
IsInvalidKeyForbidden(error) == error.status = 403

\* error.response?.status === 401
IsInvalidKey(error) == error.status = 401

RECURSIVE Pow2(_)
\* Math.pow(2, n)
Pow2(n) == IF n = 0 THEN 1 ELSE 2 * Pow2(n - 1)

\* return { success: true, data: cleanedData }
SuccessResult(data) ==
  [success |-> TRUE, rateLimited |-> FALSE, fallback |-> FALSE,
   error |-> NULL, data |-> data]

\* faulty variant: the exhausted loop reports a failure
fallbackExtractionFailure ==
  [success |-> FALSE, rateLimited |-> FALSE, fallback |-> FALSE,
   error |-> "Extraction failed", data |-> EmptyData]

\* fallbackExtraction(imagePath)
fallbackExtraction ==
  [success |-> TRUE, rateLimited |-> FALSE, fallback |-> TRUE,
   error |-> NULL, data |-> EmptyData]

\* faulty variant: the rate-limit result is flagged as a success
RateLimitedResultSuccess ==
  [success |-> TRUE, rateLimited |-> TRUE, fallback |-> FALSE,
   error |-> "Rate limit exceeded", data |-> EmptyData]

\* return { success: false, error: 'Rate limit exceeded. ...', rateLimited: true, data }
RateLimitedResult ==
  [success |-> FALSE, rateLimited |-> TRUE, fallback |-> FALSE,
   error |-> "Rate limit exceeded", data |-> EmptyData]

\* return { success: false, error: 'Invalid Mistral API key', data }
InvalidKeyResult ==
  [success |-> FALSE, rateLimited |-> FALSE, fallback |-> FALSE,
   error |-> "Invalid Mistral API key", data |-> EmptyData]

\* the process starts with some MISTRAL_API_KEY in its environment
InitMistral ==
  /\ InitCampaign
  /\ OthersOff
  /\ \E key \in ApiKeys : mistral = IdleMistral(key)
  /\ single = OffSingle
  /\ scan = OffScan

\* extractCardInfo(imagePath) is called: without a configured key it returns
\* the fallback at once, else the first attempt starts
ExtractCardInfo ==
  /\ mistral.pc = "idle"
  /\ scan.pc \in {"off", "extracting"}
  /\ mistral' =
       IF KeyNotConfigured(mistral.apiKey)
       THEN [mistral EXCEPT !.pc = "done", !.result = fallbackExtraction]
       ELSE [mistral EXCEPT !.pc = "request", !.attempt = 1]
  /\ UNCHANGED <<campaignVars, otherVars, single, scan>>

\* the attempt is recorded; axios.post was called unless the file read threw
Attempted(m, o) ==
  [m EXCEPT !.outcomes = Append(@, o),
            !.calls = IF o.kind = "read_error" THEN @ ELSE @ + 1]

\* an attempt runs through the try block and returns the cleaned data
AttemptSucceeds ==
  /\ mistral.pc = "request"
  /\ \E o \in ProviderOutcomes :
       /\ Succeeds(o)
       /\ mistral' = [Attempted(mistral, o) EXCEPT
                        !.pc = "done",
                        !.result = SuccessResult(CleanedData(o.text.parsed))]
  /\ UNCHANGED <<campaignVars, otherVars, single, scan>>

\* an attempt throws and the catch block decides: rate limit (backoff
\* 2^attempt s, or the rate-limit result on the last attempt), invalid key
\* (returned at once), anything else (2 s wait, or on the last attempt the
\* loop ends and fallbackExtraction is returned)
AttemptFails ==
  /\ mistral.pc = "request"
  /\ \E o \in ProviderOutcomes :
       /\ ~Succeeds(o)
       /\ LET m == Attempted(mistral, o)
              error == CaughtError(o)
          IN mistral' =
               IF IsRateLimit(error)
               THEN IF m.attempt < maxRetries
                    THEN [m EXCEPT !.pc = "backoff",
                                   !.waits = Append(@, Pow2(m.attempt) * 1000)]
                    ELSE [m EXCEPT !.pc = "done", !.result = RateLimitedResult]
               ELSE IF IsInvalidKey(error)
               THEN [m EXCEPT !.pc = "done", !.result = InvalidKeyResult]
               ELSE IF m.attempt < maxRetries
               THEN [m EXCEPT !.pc = "backoff", !.waits = Append(@, 2000)]
               ELSE [m EXCEPT !.pc = "done", !.attempt = @ + 1,
                              !.result = fallbackExtraction]
  /\ UNCHANGED <<campaignVars, otherVars, single, scan>>

\* the backoff timer fires: continue, attempt++, loop test
BackoffElapses ==
  /\ mistral.pc = "backoff"
  /\ mistral' =
       IF mistral.attempt + 1 <= maxRetries
       THEN [mistral EXCEPT !.pc = "request", !.attempt = @ + 1]
       ELSE [mistral EXCEPT !.pc = "done", !.attempt = @ + 1,
                            !.result = fallbackExtraction]
  /\ UNCHANGED <<campaignVars, otherVars, single, scan>>

NextMistral ==
  \/ ExtractCardInfo
  \/ AttemptSucceeds
  \/ AttemptFails
  \/ BackoffElapses

\* every axios.post ends (timeout: 30000) and every setTimeout fires
SpecMistral ==
  /\ InitMistral
  /\ [][NextMistral]_vars
  /\ WF_vars(AttemptSucceeds \/ AttemptFails)
  /\ WF_vars(BackoffElapses)

(* ------------- single-attempt extractors: openaiService --------------- *)

\* services/openaiService.js as the repository has it, and its "NO RETRIES"
\* revision (src/unnamed/part_001)
OpenAiServices == {"openaiService.js", "part_001"}

\* values of process.env.OPENAI_API_KEY: unset, empty, a key of another
\* provider, an OpenAI key
OpenAiKeys ==
  {Undefined, Empty, Str(<<"k", "e", "y">>), Str(<<"s", "k", "-", "1">>)}

\* faulty variant: the key only has to start with a k
PrefixK == <<"k">>

PrefixSk == <<"s", "k", "-">>

\* new OpenAI(...) / new GeminiService() with the environment's key, called
\* with an imagePath whose file exists or not; no extraction started
IdleSingle(service, key, file) ==
  [pc |-> "idle", service |-> service, apiKey |-> key, file |-> file,
   calls |-> 0, outcome |-> NULL, result |-> NULL]

\* the MistralService is not the configured extractor
OffMistral == [IdleMistral(NULL) EXCEPT !.pc = "off"]

\* a result without a data property
NoData == << >>

\* const emptyCard = () => ({name: '', email: '', ...})
emptyCard == [f \in Fields |-> Empty]

\* return { success: false, error }
Failure(error) ==
  [success |-> FALSE, rateLimited |-> FALSE, fallback |-> FALSE,
   error |-> error, data |-> NoData]

\* return { success: false, rateLimited: true, error }
RateLimited(error) ==
  [success |-> FALSE, rateLimited |-> TRUE, fallback |-> FALSE,
   error |-> error, data |-> NoData]

\* return { success: true, fallback: true, data: emptyCard(), error }
FallbackCard(error) ==
  [success |-> TRUE, rateLimited |-> FALSE, fallback |-> TRUE,
   error |-> error, data |-> emptyCard]

\* return { success: true, data: cardData, fallback: false, rateLimited: false }
Extracted(cardData) ==
  [success |-> TRUE, rateLimited |-> FALSE, fallback |-> FALSE,
   error |-> NULL, data |-> cardData]

\* the error texts of the two revisions
ErrorText ==
  [s \in OpenAiServices |->
     IF s = "openaiService.js"
     THEN [notConfigured |-> "OpenAI API key is not configured",
           malformed |-> "OpenAI API key appears invalid (should start with sk-)",
           notFound |-> "Image file not found at path",
           rateLimit |-> "OpenAI rate limit exceeded",
           invalidKey |-> "OpenAI API key is invalid",
           credits |-> "OpenAI account has insufficient credits"]
     ELSE [notConfigured |-> "OpenAI API key not configured",
           malformed |-> "OpenAI API key invalid (must start with sk-)",
           notFound |-> "Image file not found",
           rateLimit |-> "OpenAI rate limit exceeded",
           invalidKey |-> "Invalid OpenAI API key",
           credits |-> "OpenAI account out of credits"]]

\* Errors the provider call rejects with, by error.status (0: none, a
\* connection error or a timeout) and the phrases of the catch blocks that
\* error.message holds.
ApiErrors ==
  { [status |-> 429, message |-> {"Rate limit"}],
    [status |-> 429, message |-> {"quota"}],
    [status |-> 401, message |-> {"Incorrect API key"}],
    [status |-> 401, message |-> {}],
    [status |-> 402, message |-> {}],
    [status |-> 500, message |-> {}],
    [status |-> 0, message |-> {}] }

NoError == [status |-> 0, message |-> {}]

\* error.message?.includes(phrase)
Includes(message, phrase) == phrase \in message

\* the text of a resolved provider call: as ResponseTexts, or present but
\* empty after trim()
SingleTexts ==
  ResponseTexts \cup
  { [content |-> "empty", fenced |-> FALSE, parsed |-> [f \in Fields |-> Undefined]] }

\* !rawText, rawText = response.choices[0]?.message?.content?.trim()
RawTextMissing(text) == text.content \in {"missing", "empty"}

\* String(value): a string is itself, the number reads 42
StringOf(value) == IF IsStr(value) THEN value.v ELSE <<"4", "2">>

\* faulty variant: the value is passed on as it is
cleanFieldAsIs(value) == value

\* cleanField(value) { null or undefined -> '', else String(value).trim() }
cleanField(value) ==
  IF value.t \in {"null", "undefined"} THEN Empty
  ELSE Str(Trim(StringOf(value)))

\* parseCardJSON(text): fences stripped, the {...} span taken when there is
\* one, JSON.parse; any exception gives the empty card
parseCardJSON(text) ==
  LET cleaned == StripFences(text)
      parses == IF JsonMatch(cleaned) THEN cleaned.content = "object" ELSE FALSE
  IN IF parses
     THEN [f \in Fields |-> cleanField(cleaned.parsed[f])]
     ELSE emptyCard

\* faulty variant: the 401 test is missing
openaiServiceCatchNoAuth(error) ==
  IF error.status \in {429, 402}
  THEN RateLimited(ErrorText["openaiService.js"].rateLimit)
  ELSE FallbackCard("error.message")

\* catch (error) of services/openaiService.js
openaiServiceCatch(error) ==
  IF \/ error.status = 429
     \/ Includes(error.message, "rate_limit")
     \/ Includes(error.message, "quota")
  THEN RateLimited(ErrorText["openaiService.js"].rateLimit)
  ELSE IF error.status = 401 \/ Includes(error.message, "Incorrect API key")
  THEN Failure(ErrorText["openaiService.js"].invalidKey)
  ELSE IF error.status = 402 \/ Includes(error.message, "insufficient_quota")
  THEN RateLimited(ErrorText["openaiService.js"].credits)
  ELSE FallbackCard("error.message")

\* catch (apiError) of the revision
part001Catch(apiError) ==
  IF \/ apiError.status = 429
     \/ Includes(apiError.message, "rate_limit")
     \/ Includes(apiError.message, "Rate limit")
  THEN RateLimited(ErrorText["part_001"].rateLimit)
  ELSE IF apiError.status = 401 \/ Includes(apiError.message, "Incorrect API key")
  THEN Failure(ErrorText["part_001"].invalidKey)
  ELSE IF apiError.status = 402 \/ Includes(apiError.message, "insufficient_quota")
  THEN RateLimited(ErrorText["part_001"].credits)
  ELSE FallbackCard("apiError.message")

\* !rawText: the repository's file reports a failure, the revision returns
\* the fallback card
EmptyResponse(service) ==
  IF service = "openaiService.js"
  THEN Failure("Empty response from OpenAI")
  ELSE FallbackCard("Empty response from OpenAI")

\* the call ended with this result
SingleDone(s, outcome, result) ==
  [s EXCEPT !.pc = "done", !.outcome = outcome, !.result = result]

\* extractCardInfo(imagePath) is called: the key is validated, the file is
\* looked up and read, and openai.chat.completions.create is called
OpenaiExtractCardInfo ==
  /\ single.pc = "idle"
  /\ single.service \in OpenAiServices
  /\ scan.pc \in {"off", "extracting"}
  /\ single' =
       LET text == ErrorText[single.service]
       IN IF Falsy(single.apiKey)
          THEN SingleDone(single, NULL, Failure(text.notConfigured))
          ELSE IF ~StartsWith(single.apiKey.v, PrefixSk)
          THEN SingleDone(single, NULL, Failure(text.malformed))
          ELSE IF ~single.file
          THEN SingleDone(single, NULL, Failure(text.notFound))
          ELSE [single EXCEPT !.pc = "create", !.calls = @ + 1]
  /\ UNCHANGED <<campaignVars, otherVars, mistral, scan>>

\* the provider call resolves: empty text, or the parsed card
OpenaiCreateResolves ==
  /\ single.pc = "create"
  /\ \E t \in SingleTexts :
       single' =
         SingleDone(single, [kind |-> "resolves", error |-> NoError, text |-> t],
                    IF RawTextMissing(t)
                    THEN EmptyResponse(single.service)
                    ELSE Extracted(parseCardJSON(t)))
  /\ UNCHANGED <<campaignVars, otherVars, mistral, scan>>

\* the provider call rejects and the catch block classifies the error
OpenaiCreateRejects ==
  /\ single.pc = "create"
  /\ \E e \in ApiErrors :
       single' =
         SingleDone(single, [kind |-> "rejects", error |-> e, text |-> NoText],
                    IF single.service = "openaiService.js"
                    THEN openaiServiceCatch(e)
                    ELSE part001Catch(e))
  /\ UNCHANGED <<campaignVars, otherVars, mistral, scan>>

(* ------------- single-attempt extractors: geminiService --------------- *)

\* values of process.env.GEMINI_API_KEY: unset, a key
GeminiKeys == {Undefined, Str(<<"k", "e", "y">>)}

\* cleanString(v) { return v && v !== 'null' ? String(v).trim() : '' }
geminiCleanString(v) ==
  IF ~Falsy(v) /\ v # Str(WordNull) THEN Str(Trim(StringOf(v))) ELSE Empty

\* cleanEmail(v): v.toLowerCase().trim(), then the pattern
geminiCleanEmail(v) ==
  IF Falsy(v) THEN Empty
  ELSE IF ~IsStr(v) THEN Threw
  ELSE LET e == Trim(ToLowerCase(v.v))
       IN IF EmailRegexTest(e) THEN Str(e) ELSE Empty

\* cleanPhone(v) { return v ? v.replace(/\s+/g, ' ').trim() : '' }
geminiCleanPhone(v) ==
  IF Falsy(v) THEN Empty
  ELSE IF ~IsStr(v) THEN Threw
  ELSE Str(Trim(CollapseSpaces(v.v)))

\* cleanWebsite(v): 'https://' + v.replace(/^www\./, '') unless v starts
\* with 'http'
geminiCleanWebsite(v) ==
  IF Falsy(v) THEN Empty
  ELSE IF ~IsStr(v) THEN Threw
  ELSE IF ~StartsWith(v.v, PrefixHttp) THEN Str(PrefixHttps \o StripWww(v.v))
  ELSE v

\* data: { name: this.cleanString(json.name), ... }
GeminiData(json) ==
  [name |-> geminiCleanString(json.name),
   email |-> geminiCleanEmail(json.email),
   phone |-> geminiCleanPhone(json.phone),
   company |-> geminiCleanString(json.company),
   job_title |-> geminiCleanString(json.job_title),
   address |-> geminiCleanString(json.address),
   website |-> geminiCleanWebsite(json.website)]

\* catch (error): return { success: false, error: error.message, data: {all ''} }
GeminiFailure(error) ==
  [success |-> FALSE, rateLimited |-> FALSE, fallback |-> FALSE,
   error |-> error, data |-> [f \in Fields |-> Empty]]

\* return { success: true, data }
GeminiSuccess(data) ==
  [success |-> TRUE, rateLimited |-> FALSE, fallback |-> FALSE,
   error |-> NULL, data |-> data]

\* the try block after the POST resolved: the text must be there, JSON.parse
\* takes the text as it is (a fence or prose makes it throw), and no cleaner
\* may throw
GeminiParses(text) ==
  /\ text.content = "object"
  /\ ~text.fenced
  /\ \A f \in Fields : GeminiData(text.parsed)[f] # Threw

\* extractCardInfo(imagePath) is called: the file is read (a missing file
\* throws into the catch block) and the request is posted; the key is not
\* looked at
GeminiExtractCardInfo ==
  /\ single.pc = "idle"
  /\ single.service = "geminiService.js"
  /\ scan.pc \in {"off", "extracting"}
  /\ single' =
       IF ~single.file
       THEN SingleDone(single, NULL, GeminiFailure("ENOENT: no such file or directory"))
       ELSE [single EXCEPT !.pc = "post", !.calls = @ + 1]
  /\ UNCHANGED <<campaignVars, otherVars, mistral, scan>>

\* axios.post resolves (the provider accepted the key)
GeminiPostResolves ==
  /\ single.pc = "post"
  /\ ~Falsy(single.apiKey)
  /\ \E t \in SingleTexts :
       single' =
         SingleDone(single, [kind |-> "resolves", error |-> NoError, text |-> t],
                    IF t.content \in {"missing", "empty"}
                    THEN GeminiFailure("Empty Gemini response")
                    ELSE IF GeminiParses(t)
                    THEN GeminiSuccess(GeminiData(t.parsed))
                    ELSE GeminiFailure("error.message"))
  /\ UNCHANGED <<campaignVars, otherVars, mistral, scan>>

\* axios.post rejects
GeminiPostRejects ==
  /\ single.pc = "post"
  /\ \E e \in ApiErrors :
       single' =
         SingleDone(single, [kind |-> "rejects", error |-> e, text |-> NoText],
                    GeminiFailure("error.message"))
  /\ UNCHANGED <<campaignVars, otherVars, mistral, scan>>

\* one of the single-attempt services is the configured extractor and is
\* called once
InitSingle ==
  /\ InitCampaign
  /\ OthersOff
  /\ mistral = OffMistral
  /\ scan = OffScan
  /\ \/ \E s \in OpenAiServices, key \in OpenAiKeys, file \in BOOLEAN :
          single = IdleSingle(s, key, file)
     \/ \E key \in GeminiKeys, file \in BOOLEAN :
          single = IdleSingle("geminiService.js", key, file)

NextSingle ==
  \/ OpenaiExtractCardInfo
  \/ OpenaiCreateResolves
  \/ OpenaiCreateRejects
  \/ GeminiExtractCardInfo
  \/ GeminiPostResolves
  \/ GeminiPostRejects

SpecSingle == InitSingle /\ [][NextSingle]_vars

(* ------------------------ every extractor ----------------------------- *)

\* the deployment is configured with one extractor: MistralService, or one
\* of the single-attempt services
InitExtractors ==
  /\ InitCampaign
  /\ OthersOff
  /\ scan = OffScan
  /\ \/ /\ \E key \in ApiKeys : mistral = IdleMistral(key)
        /\ single = OffSingle
     \/ /\ mistral = OffMistral
        /\ \/ \E s \in OpenAiServices, key \in OpenAiKeys, file \in BOOLEAN :
                single = IdleSingle(s, key, file)
           \/ \E key \in GeminiKeys, file \in BOOLEAN :
                single = IdleSingle("geminiService.js", key, file)

NextExtractors ==
  \/ NextMistral
  \/ NextSingle

SpecExtractors == InitExtractors /\ [][NextExtractors]_vars

(* -------------------------- POST /api/cards/scan ---------------------- *)

\* routes/cards.js calls mistralService, its revision (src/unnamed/part_000)
\* calls openaiService
ScanRoutes == {"cards.js", "part_000"}

\* a scan request arrives, with or without an uploaded file; upload.single
\* has stored the file, so the extractor finds it
InitScan ==
  /\ InitCampaign
  /\ OthersOff
  /\ \E route \in ScanRoutes, file \in BOOLEAN :
       scan = [pc |-> "idle", route |-> route, file |-> file,
               inserted |-> <<>>, status |-> 0]
  /\ \/ /\ scan.route = "cards.js"
        /\ \E key \in ApiKeys : mistral = IdleMistral(key)
        /\ single = OffSingle
     \/ /\ scan.route = "part_000"
        /\ mistral = OffMistral
        /\ \E s \in OpenAiServices, key \in OpenAiKeys :
             single = IdleSingle(s, key, TRUE)

\* res.status(status).json(...)
ScanAnswers(status) == [scan EXCEPT !.pc = "done", !.status = status]

\* the handler starts: 400 without a file, else extractCardInfo is awaited
PostScan ==
  /\ scan.pc = "idle"
  /\ scan' = IF ~scan.file THEN ScanAnswers(400)
             ELSE [scan EXCEPT !.pc = "extracting"]
  /\ UNCHANGED <<campaignVars, otherVars, mistral, single>>

\* routes/cards.js after the await: rate limit -> 429, no success -> 500,
\* else the card is inserted
MistralExtracted ==
  /\ scan.pc = "extracting"
  /\ scan.route = "cards.js"
  /\ mistral.pc = "done"
  /\ scan' = IF mistral.result.rateLimited THEN ScanAnswers(429)
             ELSE IF ~mistral.result.success THEN ScanAnswers(500)
             ELSE [scan EXCEPT !.pc = "insert"]
  /\ UNCHANGED <<campaignVars, otherVars, mistral, single>>

\* the revision after the await: success -> the card is inserted, else
\* rate limit -> 429, anything else -> 500
OpenaiExtracted ==
  /\ scan.pc = "extracting"
  /\ scan.route = "part_000"
  /\ single.pc = "done"
  /\ scan' = IF single.result.success THEN [scan EXCEPT !.pc = "insert"]
             ELSE IF single.result.rateLimited THEN ScanAnswers(429)
             ELSE ScanAnswers(500)
  /\ UNCHANGED <<campaignVars, otherVars, mistral, single>>

\* extractionResult.data of the route's extractor
ExtractionData ==
  IF scan.route = "cards.js" THEN mistral.result.data ELSE single.result.data

\* INSERT INTO business_cards resolves, the created card is selected
InsertCardResolves ==
  /\ scan.pc = "insert"
  /\ scan' = [scan EXCEPT !.pc = "select",
                          !.inserted = Append(@, ExtractionData)]
  /\ UNCHANGED <<campaignVars, otherVars, mistral, single>>

\* INSERT INTO business_cards rejects: catch, 500
InsertCardRejects ==
  /\ scan.pc = "insert"
  /\ DbRejects
  /\ scan' = ScanAnswers(500)
  /\ UNCHANGED <<req, email_campaigns, sent_emails, events, mistral, single, otherVars>>

\* SELECT ... WHERE id = ? resolves: res.json({success: true, card})
SelectCardResolves ==
  /\ scan.pc = "select"
  /\ scan' = ScanAnswers(200)
  /\ UNCHANGED <<campaignVars, otherVars, mistral, single>>

\* SELECT ... WHERE id = ? rejects: catch, 500
SelectCardRejects ==
  /\ scan.pc = "select"
  /\ DbRejects
  /\ scan' = ScanAnswers(500)
  /\ UNCHANGED <<req, email_campaigns, sent_emails, events, mistral, single, otherVars>>

NextScan ==
  \/ PostScan
  \/ ExtractCardInfo
  \/ AttemptSucceeds
  \/ AttemptFails
  \/ BackoffElapses
  \/ MistralExtracted
  \/ OpenaiExtractCardInfo
  \/ OpenaiCreateResolves
  \/ OpenaiCreateRejects
  \/ OpenaiExtracted
  \/ InsertCardResolves
  \/ InsertCardRejects
  \/ SelectCardResolves
  \/ SelectCardRejects

SpecScan == InitScan /\ [][NextScan]_vars

(* --------------------------- replaceParameters ------------------------ *)

\* A text is kept as its lexemes: the delimiters "{{" and "}}", an
\* identifier, a word, a blank, or one of the replacement patterns "$$",
\* "$&", "$`" and "$'" of String.prototype.replace.

MaxPieces == 2

\* {{id}}
Token(id) == <<"{{", id, "}}">>

\* the identifiers of the ten regular expressions, in the order of the chain
RecognizedIds ==
  <<"name", "first_name", "last_name", "email", "company", "job_title",
    "phone", "website", "custom_note", "sender_name">>

\* x || ''
OrEmpty(x) == IF Falsy(x) THEN <<>> ELSE x.v

\* index of the first blank of cs, 0 when there is none
RECURSIVE IndexOfBlank(_, _)
IndexOfBlank(cs, k) ==
  IF k > Len(cs) THEN 0
  ELSE IF cs[k] = " " THEN k
  ELSE IndexOfBlank(cs, k + 1)

\* card.name ? card.name.split(' ')[0] : ''
firstName(card) ==
  IF Falsy(card.name) THEN <<>>
  ELSE LET b == IndexOfBlank(card.name.v, 1)
       IN IF b = 0 THEN card.name.v ELSE SubSeq(card.name.v, 1, b - 1)

\* card.name ? card.name.split(' ').slice(1).join(' ') : ''
lastName(card) ==
  IF Falsy(card.name) THEN <<>>
  ELSE LET b == IndexOfBlank(card.name.v, 1)
       IN IF b = 0 THEN <<>> ELSE SubSeq(card.name.v, b + 1, Len(card.name.v))

\* the replacement string of each .replace of the chain
ReplacementOf(id, card, customNote, senderName) ==
  CASE id = "name" -> OrEmpty(card.name)
    [] id = "first_name" -> firstName(card)
    [] id = "last_name" -> lastName(card)
    [] id = "email" -> OrEmpty(card.email)
    [] id = "company" -> OrEmpty(card.company)
    [] id = "job_title" -> OrEmpty(card.job_title)
    [] id = "phone" -> OrEmpty(card.phone)
    [] id = "website" -> OrEmpty(card.website)
    [] id = "custom_note" -> customNote.v
    [] id = "sender_name" -> senderName.v

\* what String.prototype.replace puts in for a match when the replacement is
\* a string: "$$" stands for "$", "$&" for the match, "$`" for the text
\* before it and "$'" for the text after it
RECURSIVE GetSubstitution(_, _, _, _)
GetSubstitution(replacement, before, matched, after) ==
  IF replacement = <<>> THEN <<>>
  ELSE LET head == Head(replacement)
           put == CASE head = "$$" -> <<"$">>
                    [] head = "$&" -> matched
                    [] head = "$`" -> before
                    [] head = "$'" -> after
                    [] OTHER -> <<head>>
       IN put \o GetSubstitution(Tail(replacement), before, matched, after)

\* faulty variant: any identifier between the delimiters is taken
TokenAtAnyId(text, k, id) ==
  /\ k + 2 <= Len(text)
  /\ text[k] = "{{"
  /\ text[k + 2] = "}}"

\* /\{\{id\}\}/ matches at position k of text
TokenAt(text, k, id) ==
  /\ k + 2 <= Len(text)
  /\ SubSeq(text, k, k + 2) = Token(id)

\* text.replace(/\{\{id\}\}/g, replacement), from position k on
RECURSIVE ReplaceFrom(_, _, _, _)
ReplaceFrom(text, k, id, replacement) ==
  IF k > Len(text) THEN <<>>
  ELSE IF TokenAt(text, k, id)
  THEN GetSubstitution(replacement, SubSeq(text, 1, k - 1),
                       SubSeq(text, k, k + 2), SubSeq(text, k + 3, Len(text)))
       \o ReplaceFrom(text, k + 3, id, replacement)
  ELSE <<text[k]>> \o ReplaceFrom(text, k + 1, id, replacement)

\* the chain text.replace(...).replace(...)..., from its n-th link on
RECURSIVE ReplaceChain(_, _, _, _, _)
ReplaceChain(text, n, card, customNote, senderName) ==
  IF n > Len(RecognizedIds) THEN text
  ELSE ReplaceChain(
         ReplaceFrom(text, 1, RecognizedIds[n],
                     ReplacementOf(RecognizedIds[n], card, customNote, senderName)),
         n + 1, card, customNote, senderName)

\* replaceParameters(text, card, customNote, senderName)
replaceParameters(text, card, customNote, senderName) ==
  IF Falsy(text) THEN Empty
  ELSE Str(ReplaceChain(text.v, 1, card, customNote, senderName))

\* what a subject or body is put together from: the recognized tokens, a
\* token that is not recognized, and plain text
Pieces ==
  { Token(RecognizedIds[n]) : n \in DOMAIN RecognizedIds }
  \cup { Token("foo"), <<"Hi">>, <<" ">> }

RECURSIVE Templates(_)
Templates(n) ==
  IF n = 0 THEN { <<>> }
  ELSE Templates(n - 1) \cup { t \o p : t \in Templates(n - 1), p \in Pieces }

\* rows of business_cards as the personalizer reads them: a full card, a
\* card without name, and cards whose name reads {{email}} or $&
RenderCards ==
  LET jane == [name |-> Str(<<"Jane", " ", "Doe">>), email |-> Str(<<"j@x.co">>),
               company |-> Str(<<"Acme">>), job_title |-> Str(<<"CTO">>),
               phone |-> Str(<<"555">>), website |-> Str(<<"https://x.co">>)]
  IN { jane,
       [jane EXCEPT !.name = JsNull, !.company = JsNull, !.phone = Empty],
       [jane EXCEPT !.name = Str(Token("email"))],
       [jane EXCEPT !.name = Str(<<"$&">>)] }

\* customNotes?.[card.id] || ''
CustomNotes == { Empty, Str(<<"see", " ">> \o Token("sender_name")) }

\* senderName of the request body, which the route wants non-empty
SenderNames == { Str(<<"Alex">>) }

\* replaceParameters is about to be called
InitRender ==
  /\ InitCampaign
  /\ mistral = OffMistral
  /\ single = OffSingle
  /\ scan = OffScan
  /\ mime = OffMime
  /\ gauth = OffGauth
  /\ cardApi = OffCardApi
  /\ \E text \in Templates(MaxPieces), card \in RenderCards,
        customNote \in CustomNotes, senderName \in SenderNames :
       render = [pc |-> "call", text |-> Str(text), card |-> card,
                 customNote |-> customNote, senderName |-> senderName,
                 result |-> Undefined]

\* the call returns
ReplaceParameters ==
  /\ render.pc = "call"
  /\ render' =
       [render EXCEPT
          !.pc = "returned",
          !.result = replaceParameters(render.text, render.card,
                                       render.customNote, render.senderName)]
  /\ UNCHANGED <<campaignVars, extractionVars, mime, gauth, cardApi>>

NextRender == ReplaceParameters

SpecRender == InitRender /\ [][NextRender]_vars

(* ----------------------------- detectMimeType ------------------------- *)

\* A buffer is the sequence of its bytes, buffer[k] of the source being the
\* (k+1)-th element; a path is the sequence of its characters.

\* index of the last ch in cs, 0 when there is none
RECURSIVE LastIndexOf(_, _, _)
LastIndexOf(cs, ch, k) ==
  IF k = 0 THEN 0
  ELSE IF cs[k] = ch THEN k
  ELSE LastIndexOf(cs, ch, k - 1)

\* path.extname(filePath): from the last dot of the last path segment on,
\* '' when that segment has no dot or only starts with one
extname(filePath) ==
  LET slash == LastIndexOf(filePath, "/", Len(filePath))
      base == SubSeq(filePath, slash + 1, Len(filePath))
      dot == LastIndexOf(base, ".", Len(base))
  IN IF dot <= 1 THEN <<>> ELSE SubSeq(base, dot, Len(base))

\* buffer.slice(4, 8).toString('ascii'): the bytes with their highest bit unset
AsciiSlice(buffer, start, end) ==
  [k \in 1..(IF Len(buffer) >= end THEN end - start
             ELSE IF Len(buffer) > start THEN Len(buffer) - start ELSE 0) |->
     buffer[start + k] % 128]

\* 'ftyp'
Ftyp == <<102, 116, 121, 112>>

\* const map = {'.jpg': 'image/jpeg', ...}
ExtensionMap ==
  (<<".", "j", "p", "g">> :> "image/jpeg")
  @@ (<<".", "j", "p", "e", "g">> :> "image/jpeg")
  @@ (<<".", "p", "n", "g">> :> "image/png")
  @@ (<<".", "w", "e", "b", "p">> :> "image/webp")
  @@ (<<".", "h", "e", "i", "c">> :> "image/jpeg")
  @@ (<<".", "h", "e", "i", "f">> :> "image/jpeg")
  @@ (<<".", "g", "i", "f">> :> "image/gif")
  @@ (<<".", "b", "m", "p">> :> "image/bmp")

\* faulty variant: the extension is looked up first
detectMimeTypeByExtension(filePath, buffer) ==
  LET ext == ToLowerCase(extname(filePath))
  IN IF ext \in DOMAIN ExtensionMap THEN ExtensionMap[ext]
     ELSE IF Len(buffer) >= 12 /\ buffer[1] = 137 /\ buffer[2] = 80
             /\ buffer[3] = 78 /\ buffer[4] = 71
     THEN "image/png"
     ELSE IF Len(buffer) >= 12 /\ buffer[1] = 82 /\ buffer[2] = 73
             /\ buffer[3] = 70 /\ buffer[4] = 70
     THEN "image/webp"
     ELSE "image/jpeg"

\* detectMimeType(filePath, buffer)
detectMimeType(filePath, buffer) ==
  IF Len(buffer) >= 12 /\ buffer[1] = 255 /\ buffer[2] = 216 /\ buffer[3] = 255
  THEN "image/jpeg"
  ELSE IF Len(buffer) >= 12 /\ buffer[1] = 137 /\ buffer[2] = 80
          /\ buffer[3] = 78 /\ buffer[4] = 71
  THEN "image/png"
  ELSE IF Len(buffer) >= 12 /\ buffer[1] = 82 /\ buffer[2] = 73
          /\ buffer[3] = 70 /\ buffer[4] = 70
  THEN "image/webp"
  ELSE IF Len(buffer) >= 12 /\ AsciiSlice(buffer, 4, 8) = Ftyp
  THEN "image/jpeg"
  ELSE LET ext == ToLowerCase(extname(filePath))
       IN IF ext \in DOMAIN ExtensionMap THEN ExtensionMap[ext] ELSE "image/jpeg"

\* first four bytes of a file: JPEG, PNG, RIFF, GIF8, BM and the box length
\* an ISO media file starts with
FileHeads ==
  { <<255, 216, 255, 224>>, <<137, 80, 78, 71>>, <<82, 73, 70, 70>>,
    <<71, 73, 70, 56>>, <<66, 77, 0, 0>>, <<0, 0, 0, 32>> }

\* bytes 4..7 of a file: 'ftyp', the same with the highest bits set, zeros
FileBoxes == { Ftyp, <<230, 244, 249, 240>>, <<0, 0, 0, 0>> }

\* lengths of the file read by fs.readFileSync
FileLengths == {0, 3, 8, 11, 12, 16}

FileBuffers ==
  { SubSeq(head \o box \o <<0, 0, 0, 0, 0, 0, 0, 0>>, 1, n) :
      head \in FileHeads, box \in FileBoxes, n \in FileLengths }

\* paths of the uploaded file: uploads/c with an extension or without one
FilePaths ==
  { <<"u", ".", "d", "/", "c">> \o ext :
      ext \in DOMAIN ExtensionMap
              \cup { <<>>, <<".">>, <<".", "P", "N", "G">>, <<".", "t", "x", "t">>,
                     <<".", "H", "E", "I", "C">> } }
  \cup { <<"u", "/", ".", "p", "n", "g">> }

\* detectMimeType is about to be called
InitMime ==
  /\ InitCampaign
  /\ mistral = OffMistral
  /\ single = OffSingle
  /\ scan = OffScan
  /\ render = OffRender
  /\ gauth = OffGauth
  /\ cardApi = OffCardApi
  /\ \E filePath \in FilePaths, buffer \in FileBuffers :
       mime = [pc |-> "call", filePath |-> filePath, buffer |-> buffer,
               result |-> NULL]

\* the call returns
DetectMimeType ==
  /\ mime.pc = "call"
  /\ mime' = [mime EXCEPT !.pc = "returned",
                          !.result = detectMimeType(mime.filePath, mime.buffer)]
  /\ UNCHANGED <<campaignVars, extractionVars, render, gauth, cardApi>>

NextMime == DetectMimeType

SpecMime == InitMime /\ [][NextMime]_vars

(* --------------------------- GoogleAuthService ------------------------ *)

\* The module exports one GoogleAuthService, whose oauth2Client every
\* request shares.  A token is kept as the id of the user it was issued to,
\* 0 standing for a credential that is not set.

NoCredentials == [access_token |-> 0, refresh_token |-> 0]

\* the two methods that go through this.oauth2Client
GauthOps == {"getUserInfo", "ensureValidToken"}

IdleGauthReq(user, op) ==
  [pc |-> "idle", user |-> user, op |-> op, set |-> NoCredentials,
   used |-> NoCredentials, newTokens |-> 0, result |-> NULL]

\* this.oauth2Client.setCredentials(credentials) followed, without an await
\* in between, by the client's outbound call.  The call reads the client's
\* credentials inside the googleapis library, either before it first
\* suspends or after it (deferred).
SetCredentialsAndCall(r, credentials, deferred) ==
  [gauth EXCEPT
     !.credentials = credentials,
     !.reqs[r].set = credentials,
     !.reqs[r].used = IF deferred THEN NoCredentials ELSE credentials,
     !.reqs[r].pc = IF deferred THEN "callStarted" ELSE "awaitCall"]

\* getUserInfo(accessToken) up to its await: setCredentials({access_token})
\* and oauth2.userinfo.get() with auth: this.oauth2Client
GetUserInfo(r) ==
  /\ gauth.reqs[r].pc = "idle"
  /\ gauth.reqs[r].op = "getUserInfo"
  /\ \E deferred \in BOOLEAN :
       gauth' = SetCredentialsAndCall(
                  r, [access_token |-> gauth.reqs[r].user, refresh_token |-> 0],
                  deferred)
  /\ UNCHANGED <<campaignVars, extractionVars, render, mime, cardApi>>

\* the suspended call goes on and reads the credentials the client holds now
CallReadsCredentials(r) ==
  /\ gauth.reqs[r].pc = "callStarted"
  /\ gauth' = [gauth EXCEPT !.reqs[r].used = gauth.credentials,
                            !.reqs[r].pc = "awaitCall"]
  /\ UNCHANGED <<campaignVars, extractionVars, render, mime, cardApi>>

\* the user a set of credentials speaks for at the provider
Holder(credentials) ==
  IF credentials.access_token # 0 THEN credentials.access_token
  ELSE credentials.refresh_token

\* await oauth2.userinfo.get() resolves: the profile of the credentials' holder
UserInfoResolves(r) ==
  /\ gauth.reqs[r].pc = "awaitCall"
  /\ gauth.reqs[r].op = "getUserInfo"
  /\ gauth' = [gauth EXCEPT !.reqs[r].pc = "done",
                            !.reqs[r].result = [userInfo |-> Holder(gauth.reqs[r].used)]]
  /\ UNCHANGED <<campaignVars, extractionVars, render, mime, cardApi>>

\* await oauth2.userinfo.get() rejects
UserInfoRejects(r) ==
  /\ gauth.reqs[r].pc = "awaitCall"
  /\ gauth.reqs[r].op = "getUserInfo"
  /\ gauth' = [gauth EXCEPT !.reqs[r].pc = "done",
                            !.reqs[r].result = [error |-> "userinfo"]]
  /\ UNCHANGED <<campaignVars, extractionVars, render, mime, cardApi>>

\* ensureValidToken(userId) is called: SELECT ... FROM users WHERE id = ?
EnsureValidToken(r) ==
  /\ gauth.reqs[r].pc = "idle"
  /\ gauth.reqs[r].op = "ensureValidToken"
  /\ gauth' = [gauth EXCEPT !.reqs[r].pc = "select"]
  /\ UNCHANGED <<campaignVars, extractionVars, render, mime, cardApi>>

\* the SELECT resolves.  A token that does not expire within five minutes
\* is returned as stored; otherwise refreshAccessToken(user.refresh_token)
\* runs up to its await: setCredentials({refresh_token}) and
\* this.oauth2Client.refreshAccessToken()
SelectUserResolves(r) ==
  /\ gauth.reqs[r].pc = "select"
  /\ LET user == gauth.reqs[r].user
     IN \/ gauth' =
             [gauth EXCEPT
                !.reqs[r].pc = "done",
                !.reqs[r].result =
                  [access_token |-> gauth.users[user], refresh_token |-> user]]
        \/ \E deferred \in BOOLEAN :
             gauth' = SetCredentialsAndCall(
                        r, [access_token |-> 0, refresh_token |-> user], deferred)
  /\ UNCHANGED <<campaignVars, extractionVars, render, mime, cardApi>>

\* await this.oauth2Client.refreshAccessToken() resolves with an access
\* token for the holder of the refresh token the call sent; the UPDATE of
\* the users row is issued
RefreshResolves(r) ==
  /\ gauth.reqs[r].pc = "awaitCall"
  /\ gauth.reqs[r].op = "ensureValidToken"
  /\ gauth.reqs[r].used.refresh_token # 0
  /\ gauth' = [gauth EXCEPT !.reqs[r].pc = "update",
                            !.reqs[r].newTokens = gauth.reqs[r].used.refresh_token]
  /\ UNCHANGED <<campaignVars, extractionVars, render, mime, cardApi>>

\* the refresh call or the UPDATE rejects: catch, throw new
\* Error('Failed to refresh access token')
RefreshFails(r) ==
  /\ \/ gauth.reqs[r].pc = "awaitCall" /\ gauth.reqs[r].op = "ensureValidToken"
     \/ gauth.reqs[r].pc = "update"
  /\ gauth' = [gauth EXCEPT !.reqs[r].pc = "done",
                            !.reqs[r].result = [error |-> "Failed to refresh access token"]]
  /\ UNCHANGED <<campaignVars, extractionVars, render, mime, cardApi>>

\* UPDATE users SET access_token = ?, token_expiry = ? WHERE id = ? resolves
\* and the new access token is returned with the stored refresh token
UpdateUserResolves(r) ==
  /\ gauth.reqs[r].pc = "update"
  /\ LET user == gauth.reqs[r].user
     IN gauth' =
          [gauth EXCEPT
             !.users[user] = gauth.reqs[r].newTokens,
             !.reqs[r].pc = "done",
             !.reqs[r].result =
               [access_token |-> gauth.reqs[r].newTokens, refresh_token |-> user]]
  /\ UNCHANGED <<campaignVars, extractionVars, render, mime, cardApi>>

\* the singleton is constructed, every users row holds its user's tokens,
\* and two requests are about to enter it
InitGauth ==
  /\ InitCampaign
  /\ mistral = OffMistral
  /\ single = OffSingle
  /\ scan = OffScan
  /\ render = OffRender
  /\ mime = OffMime
  /\ cardApi = OffCardApi
  /\ \E q \in [Reqs -> Users \X GauthOps] :
       gauth = [pc |-> "on",
                credentials |-> NoCredentials,
                users |-> [u \in Users |-> u],
                reqs |-> [r \in Reqs |-> IdleGauthReq(q[r][1], q[r][2])]]

NextGauth ==
  \E r \in Reqs :
    \/ GetUserInfo(r)
    \/ CallReadsCredentials(r)
    \/ UserInfoResolves(r)
    \/ UserInfoRejects(r)
    \/ EnsureValidToken(r)
    \/ SelectUserResolves(r)
    \/ RefreshResolves(r)
    \/ RefreshFails(r)
    \/ UpdateUserResolves(r)

SpecGauth == InitGauth /\ [][NextGauth]_vars

(* ------------------------------ card routes --------------------------- *)

\* GET, PUT, DELETE /api/cards/:id, POST /api/cards/:id/sync and POST
\* /api/cards/batch-sync, two requests at a time over one table.

MaxBatch == 2

\* a row of business_cards; google_contact_id 0 stands for NULL
CardRow(user, synced, contact) ==
  [user_id |-> user, present |-> TRUE, name |-> "orig",
   synced_to_google |-> synced, google_contact_id |-> contact]

\* cards 1 and 2 belong to user 1, card 2 already synced; card 3 to user 2
CardTable ==
  (1 :> CardRow(1, FALSE, 0)) @@ (2 :> CardRow(1, TRUE, 9)) @@
  (3 :> CardRow(2, FALSE, 0))

CardOps == {"get", "put", "delete", "sync"}

\* req.body.cardIds of a batch sync; only the set of ids matters to the IN
\* list, so the lists are taken in nondecreasing order
BatchIdLists ==
  { s \in UNION { [1..n -> DOMAIN CardTable] : n \in 0..MaxBatch } :
      \A k \in 1..(Len(s) - 1) : s[k] <= s[k + 1] }

\* the resourceName the People API gives the contact made for card c by
\* request r
ResourceName(r, c) == (IF r = "r1" THEN 100 ELSE 200) + c

\* a request whose first query is about to be issued
IdleCardReq(op, user, id, cardIds) ==
  [op |-> op, user |-> user, id |-> id, cardIds |-> cardIds, pc |-> "idle",
   cards |-> <<>>, i |-> 1, results |-> <<>>, contactId |-> 0,
   status |-> 0, card |-> 0]

\* res.status(status).json(...), card being the id of the card in the body
CardResponse(q, status, card) ==
  [q EXCEPT !.pc = "done", !.status = status, !.card = card]

\* faulty variant: the row is looked up by id alone
OwnedRowAnyUser(table, id, user) == table[id].present

\* WHERE id = ? AND user_id = ? finds a row
OwnedRow(table, id, user) == table[id].present /\ table[id].user_id = user

\* SELECT * FROM business_cards WHERE id IN (...) AND user_id = ?, as the
\* ids of its rows in primary-key order
SelectOwned(table, cardIds, user) ==
  SortedSeq({ c \in Range(cardIds) : OwnedRow(table, c, user) })

\* UPDATE business_cards SET synced_to_google = TRUE, google_contact_id = ?
\* WHERE id = ?
MarkSynced(table, id, contact) ==
  IF table[id].present
  THEN [table EXCEPT ![id].synced_to_google = TRUE, ![id].google_contact_id = contact]
  ELSE table

\* index of the first result from j on whose success is true, Len + 1 when
\* there is none: the loop passes over the others without awaiting
\* faulty variant: a result is taken whether its success is true or not
NextSuccessAny(results, j) == j

RECURSIVE NextSuccess(_, _)
NextSuccess(results, j) ==
  IF j > Len(results) THEN j
  ELSE IF results[j].success THEN j
  ELSE NextSuccess(results, j + 1)

\* GET /:id, the SELECT resolves
GetCard(r) ==
  LET q == cardApi.reqs[r]
  IN /\ q.pc = "idle"
     /\ q.op = "get"
     /\ cardApi' =
          [cardApi EXCEPT
             !.reqs[r] = IF OwnedRow(cardApi.table, q.id, q.user)
                         THEN CardResponse(q, 200, q.id)
                         ELSE CardResponse(q, 404, 0)]
     /\ UNCHANGED <<campaignVars, extractionVars, render, mime, gauth>>

\* PUT /:id, the first SELECT resolves
PutSelectResolves(r) ==
  LET q == cardApi.reqs[r]
  IN /\ q.pc = "idle"
     /\ q.op = "put"
     /\ cardApi' =
          [cardApi EXCEPT
             !.reqs[r] = IF OwnedRow(cardApi.table, q.id, q.user)
                         THEN [q EXCEPT !.pc = "update"]
                         ELSE CardResponse(q, 404, 0)]
     /\ UNCHANGED <<campaignVars, extractionVars, render, mime, gauth>>

\* PUT /:id, UPDATE ... WHERE id = ? AND user_id = ? resolves
PutUpdateResolves(r) ==
  LET q == cardApi.reqs[r]
  IN /\ q.pc = "update"
     /\ q.op = "put"
     /\ cardApi' =
          [cardApi EXCEPT
             !.table = IF OwnedRow(cardApi.table, q.id, q.user)
                       THEN [@ EXCEPT ![q.id].name = r]
                       ELSE @,
             !.reqs[r].pc = "reselect"]
     /\ UNCHANGED <<campaignVars, extractionVars, render, mime, gauth>>

\* PUT /:id, SELECT * FROM business_cards WHERE id = ? resolves
PutReselectResolves(r) ==
  LET q == cardApi.reqs[r]
  IN /\ q.pc = "reselect"
     /\ cardApi' =
          [cardApi EXCEPT
             !.reqs[r] = CardResponse(q, 200,
                           IF cardApi.table[q.id].present THEN q.id ELSE 0)]
     /\ UNCHANGED <<campaignVars, extractionVars, render, mime, gauth>>

\* DELETE /:id, the DELETE resolves
DeleteCard(r) ==
  LET q == cardApi.reqs[r]
  IN /\ q.pc = "idle"
     /\ q.op = "delete"
     /\ cardApi' =
          IF OwnedRow(cardApi.table, q.id, q.user)
          THEN [cardApi EXCEPT !.table[q.id].present = FALSE,
                               !.reqs[r] = CardResponse(q, 200, 0)]
          ELSE [cardApi EXCEPT !.reqs[r] = CardResponse(q, 404, 0)]
     /\ UNCHANGED <<campaignVars, extractionVars, render, mime, gauth>>

\* POST /:id/sync, the SELECT resolves
SyncSelectResolves(r) ==
  LET q == cardApi.reqs[r]
  IN /\ q.pc = "idle"
     /\ q.op = "sync"
     /\ cardApi' =
          [cardApi EXCEPT
             !.reqs[r] = IF OwnedRow(cardApi.table, q.id, q.user)
                         THEN [q EXCEPT !.pc = "syncing", !.cards = <<q.id>>]
                         ELSE CardResponse(q, 404, 0)]
     /\ UNCHANGED <<campaignVars, extractionVars, render, mime, gauth>>

\* POST /:id/sync, googleContactsService.syncContact returns: {success:
\* true, contactId} or, from its catch block, {success: false, error}
SyncContactReturns(r) ==
  LET q == cardApi.reqs[r]
  IN /\ q.pc = "syncing"
     /\ q.op = "sync"
     /\ \E success \in BOOLEAN :
          cardApi' =
            [cardApi EXCEPT
               !.reqs[r] =
                 IF success
                 THEN [q EXCEPT !.pc = "update",
                                !.contactId = ResourceName(r, q.id),
                                !.results = <<[contactId |-> q.id, success |-> TRUE,
                                               googleContactId |-> ResourceName(r, q.id)]>>]
                 ELSE CardResponse(
                        [q EXCEPT !.results = <<[contactId |-> q.id, success |-> FALSE,
                                                 googleContactId |-> 0]>>],
                        500, 0)]
     /\ UNCHANGED <<campaignVars, extractionVars, render, mime, gauth>>

\* POST /:id/sync, the UPDATE resolves
SyncUpdateResolves(r) ==
  LET q == cardApi.reqs[r]
  IN /\ q.pc = "update"
     /\ q.op = "sync"
     /\ cardApi' =
          [cardApi EXCEPT
             !.table = MarkSynced(@, q.id, q.contactId),
             !.reqs[r] = CardResponse(q, 200, 0)]
     /\ UNCHANGED <<campaignVars, extractionVars, render, mime, gauth>>

\* POST /batch-sync: 400 without card ids, else the SELECT resolves
BatchSelectResolves(r) ==
  LET q == cardApi.reqs[r]
      cards == SelectOwned(cardApi.table, q.cardIds, q.user)
  IN /\ q.pc = "idle"
     /\ q.op = "batch-sync"
     /\ cardApi' =
          [cardApi EXCEPT
             !.reqs[r] = IF q.cardIds = <<>> THEN CardResponse(q, 400, 0)
                         ELSE IF cards = <<>> THEN CardResponse(q, 404, 0)
                         ELSE [q EXCEPT !.pc = "syncing", !.cards = cards]]
     /\ UNCHANGED <<campaignVars, extractionVars, render, mime, gauth>>

\* batchSyncContacts: syncContact returns for contacts[i], its result is
\* pushed and the 500 ms pause passes.  After the last contact the results
\* go back to the route, which starts its loop of UPDATEs or, with no
\* success among them, answers.
BatchSyncOne(r) ==
  LET q == cardApi.reqs[r]
  IN /\ q.pc = "syncing"
     /\ q.op = "batch-sync"
     /\ \E success \in BOOLEAN :
          LET c == q.cards[q.i]
              results == Append(q.results,
                           [contactId |-> c, success |-> success,
                            googleContactId |->
                              IF success THEN ResourceName(r, c) ELSE 0])
              after == [q EXCEPT !.results = results, !.i = q.i + 1]
          IN cardApi' =
               [cardApi EXCEPT
                  !.reqs[r] =
                    IF q.i < Len(q.cards) THEN after
                    ELSE IF NextSuccess(results, 1) > Len(results)
                    THEN CardResponse(after, 200, 0)
                    ELSE [after EXCEPT !.pc = "update",
                                       !.i = NextSuccess(results, 1)]]
     /\ UNCHANGED <<campaignVars, extractionVars, render, mime, gauth>>

\* POST /batch-sync, the UPDATE for the successful result at i resolves; the
\* loop goes on to the next successful result or the route answers
BatchUpdateResolves(r) ==
  LET q == cardApi.reqs[r]
      result == q.results[q.i]
  IN /\ q.pc = "update"
     /\ q.op = "batch-sync"
     /\ cardApi' =
          [cardApi EXCEPT
             !.table = MarkSynced(@, result.contactId, result.googleContactId),
             !.reqs[r] = IF NextSuccess(q.results, q.i + 1) > Len(q.results)
                         THEN CardResponse(q, 200, 0)
                         ELSE [q EXCEPT !.i = NextSuccess(q.results, q.i + 1)]]
     /\ UNCHANGED <<campaignVars, extractionVars, render, mime, gauth>>

\* a pool.query of the route rejects: catch (error), status 500
CardQueryRejects(r) ==
  LET q == cardApi.reqs[r]
  IN /\ \/ q.pc = "idle" /\ ~(q.op = "batch-sync" /\ q.cardIds = <<>>)
        \/ q.pc \in {"update", "reselect"}
     /\ cardApi' = [cardApi EXCEPT !.reqs[r] = CardResponse(q, 500, 0)]
     /\ UNCHANGED <<campaignVars, extractionVars, render, mime, gauth>>

\* two authenticated requests have arrived
InitCards ==
  /\ InitCampaign
  /\ mistral = OffMistral
  /\ single = OffSingle
  /\ scan = OffScan
  /\ render = OffRender
  /\ mime = OffMime
  /\ gauth = OffGauth
  /\ \E reqs \in [Reqs ->
                    { IdleCardReq(op, user, id, <<>>) :
                        op \in CardOps, user \in Users, id \in DOMAIN CardTable }
                    \cup
                    { IdleCardReq("batch-sync", user, 0, cardIds) :
                        user \in Users, cardIds \in BatchIdLists }] :
       cardApi = [pc |-> "on", table |-> CardTable, reqs |-> reqs]

NextCards ==
  \E r \in Reqs :
    \/ GetCard(r)
    \/ PutSelectResolves(r)
    \/ PutUpdateResolves(r)
    \/ PutReselectResolves(r)
    \/ DeleteCard(r)
    \/ SyncSelectResolves(r)
    \/ SyncContactReturns(r)
    \/ SyncUpdateResolves(r)
    \/ BatchSelectResolves(r)
    \/ BatchSyncOne(r)
    \/ BatchUpdateResolves(r)
    \/ CardQueryRejects(r)

SpecCards == InitCards /\ [][NextCards]_vars

(* ------------------------- campaign properties ------------------------ *)

\* request r answered 200 (the campaign ran to its completion update)
Done200(r) == req[r].pc = "done" /\ req[r].response.status = 200

\* request r ended (any response) after it had created its campaign
EndedCampaign(r) == req[r].pc = "done" /\ req[r].campaignId # 0

Happened(ev, e) == \E p \in DOMAIN ev : ev[p] = e

\* rows of campaign c stored for card id
RowsFor(c, id) == { k \in DOMAIN sent_emails[c] : sent_emails[c][k].card_id = id }

\* C1 (as claimed): a campaign send over N recipients returns exactly N
\* result entries, the k-th for the k-th recipient, also when the send or
\* the storing of its outcome throws; a failed entry carries an error.
C1_OneResultPerRecipient ==
  \A r \in Reqs :
    Done200(r) =>
      /\ Len(req[r].response.results) = Len(req[r].recipients)
      /\ \A k \in DOMAIN req[r].response.results :
           /\ req[r].response.results[k].recipientId = req[r].recipients[k].id
           /\ ~req[r].response.results[k].success =>
                req[r].response.results[k].error # NULL

\* C2 (as claimed): a completed campaign has sent_count + failed_count =
\* total_recipients, in the stored row and in the response.
C2_CountsAddUp ==
  /\ \A c \in DOMAIN email_campaigns :
       email_campaigns[c].status = "completed" =>
         email_campaigns[c].sent_count + email_campaigns[c].failed_count
           = email_campaigns[c].total_recipients
  /\ \A r \in Reqs :
       Done200(r) =>
         req[r].response.sentCount + req[r].response.failedCount
           = req[r].response.totalRecipients

\* C3 (as claimed): an error while handling one recipient never aborts the
\* batch: when the handler has ended, the send was invoked for every
\* recipient of the campaign.
C3_ErrorNeverAborts ==
  \A r \in Reqs :
    EndedCampaign(r) =>
      \A k \in DOMAIN req[r].recipients : Happened(events[r], <<"send", k>>)

\* C4 (as claimed): a campaign created in_progress reaches completed: when
\* the handler that created it has ended, its row is completed.
C4_EndsCompleted ==
  \A r \in Reqs :
    EndedCampaign(r) =>
      email_campaigns[req[r].campaignId].status = "completed"

\* the sends of campaign c that have returned, counted by its handler
AttemptedSends(c) ==
  { k \in 1..email_campaigns[c].total_recipients :
      \E r \in Reqs : req[r].campaignId = c
                       /\ Happened(events[r], <<"returned", k>>) }

\* C5: a campaign row is created in_progress, no row is removed, and the
\* only change of a status is in_progress -> completed, made after the send
\* of every recipient of that campaign has returned; a completed row keeps
\* its status.
C5_StatusOnlyForward ==
  [][ /\ DOMAIN email_campaigns \subseteq DOMAIN email_campaigns'
      /\ \A c \in DOMAIN email_campaigns' :
           IF c \notin DOMAIN email_campaigns
           THEN email_campaigns'[c].status = "in_progress"
           ELSE \/ email_campaigns'[c].status = email_campaigns[c].status
                \/ /\ email_campaigns[c].status = "in_progress"
                   /\ email_campaigns'[c].status = "completed"
                   /\ Cardinality(AttemptedSends(c))
                        = email_campaigns[c].total_recipients ]_vars

\* C5 witness: one campaign is completed while the other one, created
\* later, is still being sent
C5_Witness ==
  /\ Len(email_campaigns) = 2
  /\ email_campaigns[1].status = "completed"
  /\ email_campaigns[2].status = "in_progress"
  /\ \E r \in Reqs : req[r].campaignId = 2 /\ req[r].pc = "await_send"

\* C6: recipients are handled in list order, one at a time: the send of
\* recipient k+1 is invoked only after the send of recipient k returned and
\* its sent_emails row was stored, and the entries of sendResults follow
\* the order of the recipients (also for recipients sharing an address).
C6_InOrderOneAtATime ==
  \A r \in Reqs :
    /\ \A p \in DOMAIN events[r] :
         events[r][p][1] = "send" =>
           LET k == events[r][p][2]
           IN /\ \A p2 \in 1..(p - 1) :
                   events[r][p2][1] = "send" => events[r][p2][2] < k
              /\ k > 1 =>
                   /\ \E p2 \in 1..(p - 1) : events[r][p2] = <<"returned", k - 1>>
                   /\ \E p2 \in 1..(p - 1) : events[r][p2] = <<"row", k - 1>>
              /\ k = 1 => p = 1
    /\ \A a, b \in DOMAIN req[r].sendResults :
         a < b =>
           \E ka, kb \in DOMAIN req[r].recipients :
             /\ ka < kb
             /\ req[r].recipients[ka].id = req[r].sendResults[a].recipientId
             /\ req[r].recipients[kb].id = req[r].sendResults[b].recipientId
             /\ req[r].recipients[ka].email = req[r].sendResults[a].email
             /\ req[r].recipients[kb].email = req[r].sendResults[b].email

\* C6 witness: a finished campaign of three recipients, two of them with
\* the same address, each with its result entry
C6_Witness ==
  \E r \in Reqs :
    /\ Done200(r)
    /\ Len(req[r].recipients) = 3
    /\ Len(req[r].sendResults) = 3
    /\ req[r].recipients[1].email = req[r].recipients[2].email

\* C7 (as claimed): the pacing delay is taken after every recipient's
\* attempt before the next recipient's send is invoked, also on an error.
C7_PacingAfterEveryAttempt ==
  \A r \in Reqs :
    \A p \in DOMAIN events[r] :
      (events[r][p][1] = "send" /\ events[r][p][2] > 1) =>
        \E p2 \in 1..(p - 1) : events[r][p2] = <<"delay", events[r][p][2] - 1>>

\* C8 (as claimed): when the handler of a campaign has ended, every
\* recipient of it has exactly one sent_emails row.
C8_ExactlyOneRow ==
  \A r \in Reqs :
    EndedCampaign(r) =>
      \A k \in DOMAIN req[r].recipients :
        Cardinality(RowsFor(req[r].campaignId, req[r].recipients[k].id)) = 1

(* -------------------------- Mistral properties ------------------------ *)

MistralDone == mistral.pc = "done"

\* C9: one extractCardInfo call makes at most 3 provider calls whatever the
\* provider answers, a successful attempt is the last one and its data is
\* what is returned, and a started call always ends with a result.
C9_AtMostThreeCalls ==
  /\ [](/\ mistral.calls <= 3
        /\ Len(mistral.outcomes) <= 3
        /\ \A p \in DOMAIN mistral.outcomes :
             Succeeds(mistral.outcomes[p]) =>
               /\ p = Len(mistral.outcomes)
               /\ MistralDone
               /\ mistral.result.success /\ ~mistral.result.fallback
        /\ MistralDone =>
             /\ mistral.result.success \in BOOLEAN
             /\ DOMAIN mistral.result.data = Fields)
  /\ (mistral.pc = "request") ~> MistralDone

\* C9 witness: two failed attempts, then a third provider call that succeeds
C9_Witness ==
  /\ MistralDone
  /\ mistral.calls = 3
  /\ mistral.result.success /\ ~mistral.result.fallback

\* C10: when the third attempt is answered with HTTP 429 or the provider's
\* rate-limit code, the result is success false, rateLimited true with all
\* seven fields empty; a rateLimited result is returned only then.
C10_RateLimitedAfterLastAttempt ==
  MistralDone =>
    LET n == Len(mistral.outcomes)
        lastRateLimited ==
          /\ n = 3
          /\ mistral.outcomes[n].kind = "http_error"
          /\ (mistral.outcomes[n].status = 429 \/ mistral.outcomes[n].code = "1300")
    IN /\ lastRateLimited =>
            /\ ~mistral.result.success
            /\ mistral.result.rateLimited
            /\ \A f \in Fields : mistral.result.data[f] = Empty
       /\ mistral.result.rateLimited => lastRateLimited

\* C10 witness: a transient error, a 429 and then the provider's rate-limit
\* code on the third attempt
C10_Witness ==
  /\ MistralDone
  /\ mistral.result.rateLimited
  /\ Len(mistral.outcomes) = 3
  /\ mistral.outcomes[1].kind = "no_response"
  /\ mistral.outcomes[2].status = 429
  /\ mistral.outcomes[3].code = "1300"
  /\ mistral.waits = <<2000, 4000>>

OtherFailure(o) ==
  /\ o.kind = "http_error" => (o.status \notin {429, 401} /\ o.code # "1300")
  /\ o.kind = "response" =>
       \/ o.text.content \in {"missing", "prose", "malformed"}
       \/ \E f \in Fields : o.text.parsed[f] = JsNumber

\* C12: when all three attempts fail with errors that are neither a rate
\* limit nor an invalid key, the attempts are separated by a fixed wait of
\* 2 s and the result is the fallback: success true, fallback true, all
\* seven fields empty.
C12_OtherErrorsEndInFallback ==
  ( /\ MistralDone
    /\ Len(mistral.outcomes) = 3
    /\ \A p \in DOMAIN mistral.outcomes : OtherFailure(mistral.outcomes[p]) ) =>
      /\ mistral.waits = <<2000, 2000>>
      /\ mistral.result.success
      /\ mistral.result.fallback
      /\ ~mistral.result.rateLimited
      /\ \A f \in Fields : mistral.result.data[f] = Empty

\* C12 witness: a network error, an HTTP 500 and an unparsable answer
C12_Witness ==
  /\ MistralDone
  /\ Len(mistral.outcomes) = 3
  /\ mistral.outcomes[1].kind = "no_response"
  /\ mistral.outcomes[2].status = 500
  /\ mistral.outcomes[3].kind = "response"
  /\ mistral.outcomes[3].text.content = "prose"
  /\ mistral.result.fallback


(* --------------------- single-attempt properties ---------------------- *)

SingleEnded == single.pc = "done"

OpenAiEnded == SingleEnded /\ single.service \in OpenAiServices

\* the key is there and starts with sk-
WellFormedKey == single.apiKey = Str(<<"s", "k", "-", "1">>)

\* C13: one extractCardInfo call of the single-attempt service makes
\* exactly one provider call when the key is present and well-formed and
\* the image file is there, never more than one, and makes no call and
\* returns success false with an error text when the key is absent or not
\* well-formed (or the file is missing).
C13_OneCallAfterPreflight ==
  single.service \in OpenAiServices =>
    /\ single.calls <= 1
    /\ SingleEnded =>
         IF WellFormedKey /\ single.file
         THEN single.calls = 1
         ELSE /\ single.calls = 0
              /\ single.outcome = NULL
              /\ ~single.result.success
              /\ ~single.result.fallback
              /\ single.result.error # NULL

\* C13 witness: the checks pass, one call is made and it returns a card
C13_Witness ==
  /\ OpenAiEnded
  /\ WellFormedKey /\ single.file
  /\ single.calls = 1
  /\ single.result.success /\ ~single.result.fallback

\* a rejected provider call that is a rate limit or a quota error
QuotaError(e) ==
  \/ e.status \in {429, 402}
  \/ e.message \cap {"rate_limit", "Rate limit", "quota", "insufficient_quota"} # {}

\* C14: a rejected provider call is classified by the single-attempt
\* service: HTTP 429 or a quota error gives success false, rateLimited true
\* with an error; HTTP 401 gives success false with an error and without
\* rateLimited; any other exception gives success true, fallback true, all
\* seven fields empty and an error.
C14_CallOutcomeClassified ==
  (OpenAiEnded /\ single.calls = 1 /\ single.outcome.kind = "rejects") =>
    LET e == single.outcome.error
        r == single.result
    IN /\ r.error # NULL
       /\ IF QuotaError(e)
          THEN ~r.success /\ r.rateLimited /\ ~r.fallback
          ELSE IF e.status = 401
          THEN ~r.success /\ ~r.rateLimited /\ ~r.fallback
          ELSE /\ r.success /\ r.fallback /\ ~r.rateLimited
               /\ \A f \in Fields : r.data[f] = Empty

\* C14 witness: the repository's service is answered with HTTP 401
C14_Witness ==
  /\ OpenAiEnded
  /\ single.service = "openaiService.js"
  /\ single.calls = 1
  /\ single.outcome.kind = "rejects"
  /\ single.outcome.error.status = 401
  /\ ~single.result.success /\ ~single.result.rateLimited


\* C15: when the provider call of the single-attempt service resolves with
\* a missing or empty text, the result is the fallback: success true,
\* fallback true, all seven fields empty, and never success false.
C15_EmptyTextIsFallback ==
  ( /\ OpenAiEnded
    /\ single.calls = 1
    /\ single.outcome.kind = "resolves"
    /\ single.outcome.text.content \in {"missing", "empty"} ) =>
      /\ single.result.success
      /\ single.result.fallback
      /\ DOMAIN single.result.data = Fields
      /\ \A f \in DOMAIN single.result.data : single.result.data[f] = Empty

\* C16: when the provider call of the single-attempt service resolves with
\* a text that holds no JSON object or one that does not parse, the result
\* is success true, fallback true with all seven fields empty.
C16_UnparsableTextIsFallback ==
  ( /\ OpenAiEnded
    /\ single.calls = 1
    /\ single.outcome.kind = "resolves"
    /\ single.outcome.text.content \in {"prose", "malformed"} ) =>
      /\ single.result.success
      /\ single.result.fallback
      /\ \A f \in Fields : single.result.data[f] = Empty


(* ---------------------- properties of every extractor ----------------- *)

\* C17: every result an extractor returns: when success is true, data has
\* the seven keys and each is a string; when fallback is true, success is
\* true and every field is the empty string.
C17_ResultShape ==
  /\ MistralDone =>
       /\ mistral.result.success =>
            /\ DOMAIN mistral.result.data = Fields
            /\ \A f \in Fields : IsStr(mistral.result.data[f])
       /\ mistral.result.fallback =>
            /\ mistral.result.success
            /\ \A f \in Fields : mistral.result.data[f] = Empty
  /\ SingleEnded =>
       /\ single.result.success =>
            /\ DOMAIN single.result.data = Fields
            /\ \A f \in DOMAIN single.result.data : IsStr(single.result.data[f])
       /\ single.result.fallback =>
            /\ single.result.success
            /\ \A f \in DOMAIN single.result.data : single.result.data[f] = Empty

\* C17 witness: the single-attempt service is answered with a card whose
\* name is a number and returns it as a string
C17_Witness ==
  /\ SingleEnded
  /\ single.calls = 1
  /\ single.outcome.kind = "resolves"
  /\ single.outcome.text.content = "object"
  /\ single.outcome.text.parsed.name = JsNumber
  /\ single.result.success
  /\ single.result.data.name = Str(<<"4", "2">>)


\* the credential of the configured extractor is missing or malformed
CredentialUnusable ==
  \/ /\ mistral.pc # "off"
     /\ mistral.apiKey \in {NULL, "your_mistral_api_key", "your-mistral-api-key"}
  \/ /\ single.service \in OpenAiServices
     /\ ~WellFormedKey
  \/ /\ single.service = "geminiService.js"
     /\ single.apiKey = Undefined

\* C19: with a missing or malformed credential no extractor makes a network
\* call, and the result it returns is an explicit failure: success false
\* with an error text, not a success and not a fallback.
C19_CredentialErrorIsFailure ==
  CredentialUnusable =>
    /\ mistral.calls = 0
    /\ single.calls = 0
    /\ MistralDone =>
         /\ ~mistral.result.success
         /\ ~mistral.result.fallback
         /\ mistral.result.error # NULL
    /\ SingleEnded =>
         /\ ~single.result.success
         /\ ~single.result.fallback
         /\ single.result.error # NULL

\* the email the provider's JSON carried and the email of the result, for
\* a returned extraction
EmailInOut ==
  IF MistralDone /\ mistral.result.success /\ ~mistral.result.fallback
  THEN { <<mistral.outcomes[Len(mistral.outcomes)].text.parsed.email,
           mistral.result.data.email>> }
  ELSE IF SingleEnded /\ single.result.success /\ ~single.result.fallback
  THEN { <<single.outcome.text.parsed.email, single.result.data.email>> }
  ELSE {}

\* C20: the email of every successful result is the empty string or the
\* trimmed, lower-cased input, matching local@domain.tld without
\* whitespace; "not-an-email" gives "" and "JOHN@EXAMPLE.COM " gives
\* "john@example.com".
C20_EmailCleaned ==
  \A io \in EmailInOut :
    LET in == io[1]
        out == io[2]
    IN /\ IsStr(out)
       /\ \/ out = Empty
          \/ /\ IsStr(in)
             /\ out.v = ToLowerCase(Trim(in.v))
             /\ EmailRegexTest(out.v)
             /\ \A k \in DOMAIN out.v :
                  out.v[k] \notin Whitespace \cup DOMAIN UpperToLower
       /\ in = Str(NotAnEmail) => out = Empty
       /\ in = Str(JohnUpper) => out = Str(JohnLower)


(* ----------------------------- scan properties ------------------------ *)

\* the result the route's extractor returned
ExtractionResult ==
  IF scan.route = "cards.js" THEN mistral.result ELSE single.result

\* the provider rejected the credential
AuthError(r) ==
  /\ ~r.success /\ ~r.rateLimited
  /\ r.error \in {"Invalid Mistral API key",
                  ErrorText["openaiService.js"].invalidKey,
                  ErrorText["part_001"].invalidKey}

\* C18: a scan request whose extraction ran stores exactly one card when
\* the extraction ends in success (a real extraction, or a fallback after a
\* parse or transient error) and the INSERT is accepted; it stores no card
\* and answers with a failure status when the extraction ends in a
\* configuration error, an auth error or a rate limit.
C18_OneCardOrFailure ==
  (scan.pc = "done" /\ scan.file) =>
    LET r == ExtractionResult
    IN /\ (~CredentialUnusable /\ r.success /\ dbFaults = 0) =>
            Len(scan.inserted) = 1
       /\ (CredentialUnusable \/ AuthError(r) \/ r.rateLimited) =>
            /\ Len(scan.inserted) = 0
            /\ scan.status \in {429, 500}


(* ---------------------- the last attempt decides ---------------------- *)

\* an attempt answered with HTTP 429 or the provider's rate-limit code
RateLimitedAttempt(o) ==
  o.kind = "http_error" /\ (o.status = 429 \/ o.code = "1300")

\* C26: after three attempts the result follows from the error of the third
\* alone: rate limit, rate limit, other error gives success true, fallback
\* true; other, other, rate limit gives success false, rateLimited true;
\* and no result has rateLimited true together with success true.
C26_LastAttemptDecides ==
  MistralDone =>
    /\ ~(mistral.result.rateLimited /\ mistral.result.success)
    /\ Len(mistral.outcomes) = 3 =>
         LET o == mistral.outcomes
             r == mistral.result
         IN /\ ( /\ RateLimitedAttempt(o[1]) /\ RateLimitedAttempt(o[2])
                 /\ OtherFailure(o[3]) ) =>
                   r.success /\ r.fallback /\ ~r.rateLimited
            /\ ( /\ OtherFailure(o[1]) /\ OtherFailure(o[2])
                 /\ RateLimitedAttempt(o[3]) ) =>
                   ~r.success /\ r.rateLimited /\ ~r.fallback
            /\ RateLimitedAttempt(o[3]) => r.rateLimited
            /\ OtherFailure(o[3]) => r.fallback

\* C26 witness: two rate-limited attempts with their backoff, then a
\* server error, and the fallback is returned
C26_Witness ==
  /\ MistralDone
  /\ Len(mistral.outcomes) = 3
  /\ mistral.outcomes[1].status = 429
  /\ mistral.outcomes[2].code = "1300"
  /\ mistral.outcomes[3].status = 500
  /\ mistral.waits = <<2000, 4000>>
  /\ mistral.result.success /\ mistral.result.fallback


(* ---------------------- campaign rows and counters -------------------- *)

\* the sent_emails rows of campaign c with this status
RowsWithStatus(c, status) ==
  { k \in DOMAIN sent_emails[c] : sent_emails[c][k].status = status }

\* C27: for every completed campaign the number of its sent_emails rows
\* with status 'sent' equals its sent_count and the number with status
\* 'failed' equals its failed_count.
C27_RowsMatchCounters ==
  \A c \in DOMAIN email_campaigns :
    email_campaigns[c].status = "completed" =>
      /\ Cardinality(RowsWithStatus(c, "sent")) = email_campaigns[c].sent_count
      /\ Cardinality(RowsWithStatus(c, "failed")) = email_campaigns[c].failed_count


(* ---------------------- recipients of a campaign ---------------------- *)

\* the ids among cardIds that are cards of this user
OwnedMatching(cardIds, user) ==
  { id \in Range(cardIds) \cap DOMAIN business_cards :
      business_cards[id].user_id = user }

CardIdsOf(cards) == { cards[k].id : k \in DOMAIN cards }

\* C29: the cards of a campaign are the distinct cards of the requester
\* among cardIds, each once, and total_recipients is their number; sends,
\* sent_emails rows and result entries exist only for them; a request
\* answered 400 (fields missing) or 404 (no owned card matches) has created
\* no campaign and sent no email.
C29_RecipientsAreOwnedMatches ==
  /\ [](\A r \in Reqs :
          LET q == req[r]
          IN /\ q.pc = "await_insert_campaign" =>
                  /\ CardIdsOf(q.cards) = OwnedMatching(q.cardIds, q.user)
                  /\ Cardinality(CardIdsOf(q.cards)) = Len(q.cards)
                  /\ Len(q.cards) > 0
             /\ q.campaignId # 0 =>
                  /\ email_campaigns[q.campaignId].total_recipients
                       = Cardinality(CardIdsOf(q.cards))
                  /\ Len(q.recipients) = Len(q.cards)
                  /\ \A k \in DOMAIN q.recipients : q.recipients[k].id = q.cards[k].id
                  /\ \A k \in DOMAIN q.cards : q.cards[k].user_id = q.user
                  /\ \A p \in DOMAIN events[r] : events[r][p][2] \in DOMAIN q.recipients
                  /\ \A k \in DOMAIN sent_emails[q.campaignId] :
                       sent_emails[q.campaignId][k].card_id \in CardIdsOf(q.cards)
                  /\ \A k \in DOMAIN q.sendResults :
                       q.sendResults[k].recipientId \in CardIdsOf(q.cards)
             /\ (q.pc = "done" /\ q.response.status \in {400, 404}) =>
                  /\ q.campaignId = 0
                  /\ events[r] = <<>>
                  /\ q.response.status = 404 =>
                       OwnedMatching(q.cardIds, q.user) = {}
             /\ q.campaignId = 0 => events[r] = <<>>)
  /\ [](Len(email_campaigns) = Cardinality({ r \in Reqs : req[r].campaignId # 0 }))
  /\ [][\A r \in Reqs :
          req[r].cards # <<>> => req'[r].cards = req[r].cards]_vars

\* C29 witness: one campaign is completed with one recipient, one send and
\* one row, while a request naming card 1 twice and a card of another
\* user has selected one card
C29_Witness ==
  \E r \in Reqs :
    /\ Done200(r)
    /\ req[r].user = 1
    /\ Len(req[r].cards) = 1
    /\ req[r].response.totalRecipients = 1
    /\ Len(sent_emails[req[r].campaignId]) = 1
    /\ \E r2 \in Reqs :
         /\ req[r2].pc = "await_insert_campaign"
         /\ req[r2].cardIds = <<1, 1, 4>>
         /\ Len(req[r2].cards) = 1



(* --------------------------- website properties ----------------------- *)

\* the cleaner each service applies to the website of the parsed card
WebsiteCleaner(service, website) ==
  IF service = "mistralService.js" THEN cleanWebsite(website)
  ELSE IF service = "geminiService.js" THEN geminiCleanWebsite(website)
  ELSE cleanField(website)

\* the service, the website the provider's JSON carried and the website of
\* the result, for a returned extraction
WebsiteInOut ==
  IF MistralDone /\ mistral.result.success /\ ~mistral.result.fallback
  THEN { <<"mistralService.js",
           mistral.outcomes[Len(mistral.outcomes)].text.parsed.website,
           mistral.result.data.website>> }
  ELSE IF SingleEnded /\ single.result.success /\ ~single.result.fallback
  THEN { <<single.service, single.outcome.text.parsed.website,
           single.result.data.website>> }
  ELSE {}

\* C21: the website of every successful result is the empty string or a
\* lower-case string starting with "http", cleaning it again changes
\* nothing, and "example.com" and "www.example.com" give
\* "https://example.com" while "https://example.com" stays as it is.
C21_WebsiteCleaned ==
  \A io \in WebsiteInOut :
    LET service == io[1]
        in == io[2]
        out == io[3]
    IN /\ IsStr(out)
       /\ \/ out = Empty
          \/ /\ StartsWith(out.v, PrefixHttp)
             /\ \A k \in DOMAIN out.v : out.v[k] \notin DOMAIN UpperToLower
       /\ WebsiteCleaner(service, out) = out
       /\ in \in {Str(ExampleCom), Str(WwwExampleCom), Str(HttpsExampleCom)}
            => out = Str(HttpsExampleCom)



(* --------------------------- render properties ------------------------ *)

\* number of places of cs where the token {{id}} stands
CountToken(cs, id) ==
  Cardinality({ k \in DOMAIN cs : k + 2 <= Len(cs) /\ SubSeq(cs, k, k + 2) = Token(id) })

\* the identifiers that stand between delimiters somewhere in cs
IdsIn(cs) ==
  { cs[k + 1] : k \in { j \in DOMAIN cs : j + 2 <= Len(cs) /\ cs[j] = "{{" /\ cs[j + 2] = "}}" } }

Recognized == { RecognizedIds[n] : n \in DOMAIN RecognizedIds }

\* C22: a returned rendering holds every token that is not recognized as
\* often as the template does, at least, and a template without any
\* recognized token is returned as it is, whatever the card, note and sender.
C22_UnknownTokensVerbatim ==
  render.pc = "returned" =>
    /\ \A id \in IdsIn(render.text.v) \ Recognized :
         CountToken(render.result.v, id) >= CountToken(render.text.v, id)
    /\ IdsIn(render.text.v) \cap Recognized = {} => render.result = render.text

\* the template "{{foo}}Hi" has been rendered for the card whose name reads
\* {{email}}, with a note that holds {{sender_name}}
C22_Witness ==
  /\ render.pc = "returned"
  /\ render.text = Str(Token("foo") \o <<"Hi">>)
  /\ render.card.name = Str(Token("email"))
  /\ render.customNote # Empty
  /\ render.result = render.text

\* the template with every recognized token replaced, in one pass, by
\* exactly that token's value
RECURSIVE SinglePass(_, _, _, _, _)
SinglePass(text, k, card, customNote, senderName) ==
  IF k > Len(text) THEN <<>>
  ELSE IF /\ k + 2 <= Len(text)
          /\ text[k] = "{{"
          /\ text[k + 2] = "}}"
          /\ text[k + 1] \in Recognized
  THEN ReplacementOf(text[k + 1], card, customNote, senderName)
       \o SinglePass(text, k + 3, card, customNote, senderName)
  ELSE <<text[k]>> \o SinglePass(text, k + 1, card, customNote, senderName)

\* C23: a returned rendering is the template with every occurrence of each
\* recognized token replaced by exactly that token's value, in one pass: a
\* value that itself holds token text shows up unchanged.
C23_LiteralSinglePass ==
  render.pc = "returned" =>
    render.result =
      Str(SinglePass(render.text.v, 1, render.card, render.customNote,
                     render.senderName))



(* ---------------------------- MIME properties ------------------------- *)

MimeTypes == {"image/jpeg", "image/png", "image/webp", "image/gif", "image/bmp"}

\* the type a buffer's leading bytes stand for, NULL when they are none of
\* FF D8 FF, 89 50 4E 47, 52 49 46 46 and carry no ftyp at offset 4
SignatureType(buffer) ==
  IF Len(buffer) >= 3 /\ SubSeq(buffer, 1, 3) = <<255, 216, 255>> THEN "image/jpeg"
  ELSE IF Len(buffer) >= 4 /\ SubSeq(buffer, 1, 4) = <<137, 80, 78, 71>> THEN "image/png"
  ELSE IF Len(buffer) >= 4 /\ SubSeq(buffer, 1, 4) = <<82, 73, 70, 70>> THEN "image/webp"
  ELSE IF Len(buffer) >= 8 /\ [k \in 1..4 |-> buffer[4 + k] % 128] = Ftyp THEN "image/jpeg"
  ELSE NULL

\* the type the extension of a path stands for, image/jpeg when it is unknown
ExtensionType(filePath) ==
  LET ext == ToLowerCase(extname(filePath))
  IN IF ext \in DOMAIN ExtensionMap THEN ExtensionMap[ext] ELSE "image/jpeg"

HeicExtensions == { <<".", "h", "e", "i", "c">>, <<".", "h", "e", "i", "f">> }

\* C25 as stated: the result is one of the five types; a signature in the
\* leading bytes decides it whatever the extension, ftyp at offset 4 giving
\* image/jpeg; the extension decides only when there is no signature, .heic
\* and .heif giving image/jpeg.
C25_SignatureDecides ==
  mime.pc = "returned" =>
    /\ mime.result \in MimeTypes
    /\ SignatureType(mime.buffer) # NULL => mime.result = SignatureType(mime.buffer)
    /\ SignatureType(mime.buffer) = NULL =>
         /\ mime.result = ExtensionType(mime.filePath)
         /\ ToLowerCase(extname(mime.filePath)) \in HeicExtensions
              => mime.result = "image/jpeg"

\* C25, amended: the same for a buffer of at least 12 bytes; a shorter buffer
\* is typed by its extension alone.
C25_SignatureDecidesFrom12Bytes ==
  mime.pc = "returned" =>
    LET sniffed == IF Len(mime.buffer) >= 12 THEN SignatureType(mime.buffer) ELSE NULL
    IN /\ mime.result \in MimeTypes
       /\ sniffed # NULL => mime.result = sniffed
       /\ sniffed = NULL =>
            /\ mime.result = ExtensionType(mime.filePath)
            /\ ToLowerCase(extname(mime.filePath)) \in HeicExtensions
                 => mime.result = "image/jpeg"

\* a 16-byte file with ftyp at offset 4, named .png, has been typed image/jpeg
C25_Witness ==
  /\ mime.pc = "returned"
  /\ Len(mime.buffer) = 16
  /\ SubSeq(mime.buffer, 5, 8) = Ftyp
  /\ SubSeq(mime.buffer, 1, 4) = <<0, 0, 0, 32>>
  /\ extname(mime.filePath) = <<".", "p", "n", "g">>
  /\ mime.result = "image/jpeg"



(* ------------------------ GoogleAuthService properties ---------------- *)

\* request r has set credentials and its outbound call has not come back
CallInFlight(r) == gauth.reqs[r].pc \in {"callStarted", "awaitCall"}

\* C24: while a request's outbound call is in flight the client holds the
\* credentials that request set for its own user, and the credentials the
\* call uses are those, whatever another request does in between.
C24_OwnCredentials ==
  \A r \in Reqs :
    /\ CallInFlight(r) => gauth.credentials = gauth.reqs[r].set
    /\ gauth.reqs[r].pc \in {"awaitCall", "update", "done"}
       /\ gauth.reqs[r].set # NoCredentials
         => gauth.reqs[r].used = gauth.reqs[r].set



(* -------------------------- card route properties --------------------- *)

\* the ids a card request names
NamedIds(q) == IF q.op = "batch-sync" THEN Range(q.cardIds) ELSE {q.id}

\* ids of cards that belong to another user than the request's
ForeignIds(q) == { c \in NamedIds(q) : CardTable[c].user_id # q.user }

\* what a request has read, handed to the contact sync or got results for
\* belongs to its user
OnlyOwnCards(q) ==
  /\ \A k \in DOMAIN q.cards : CardTable[q.cards[k]].user_id = q.user
  /\ \A k \in DOMAIN q.results : CardTable[q.results[k].contactId].user_id = q.user
  /\ q.card # 0 => CardTable[q.card].user_id = q.user

\* a step changes a row only if it is a step of a request of the row's owner
RowsChangedByOwner ==
  \A c \in DOMAIN CardTable :
    cardApi'.table[c] # cardApi.table[c] =>
      \E r \in Reqs :
        /\ cardApi'.reqs[r] # cardApi.reqs[r]
        /\ cardApi.reqs[r].user = CardTable[c].user_id

SyncFieldsFollowSuccess ==
  \A c \in DOMAIN CardTable :
    LET old == cardApi.table[c]
        new == cardApi'.table[c]
    IN /\ old.synced_to_google => new.synced_to_google
       /\ \/ new.synced_to_google # old.synced_to_google
          \/ new.google_contact_id # old.google_contact_id
          => \E r \in Reqs :
               /\ cardApi.reqs[r].pc = "update"
               /\ cardApi'.reqs[r] # cardApi.reqs[r]
               /\ new.synced_to_google
               /\ \E k \in DOMAIN cardApi.reqs[r].results :
                    cardApi.reqs[r].results[k] =
                      [contactId |-> c, success |-> TRUE,
                       googleContactId |-> new.google_contact_id]

\* C30: once batchSyncContacts has returned there is one result per card,
\* in the order of the cards, whether syncs failed or not; a card's synced
\* flag and contact id change only by the UPDATE for a result of that card
\* whose success is true, so a card whose sync failed keeps both; a synced
\* flag that is true stays true.
C30_BatchSyncFrame ==
  /\ [](cardApi.pc = "on" =>
          \A r \in Reqs :
            LET q == cardApi.reqs[r]
            IN q.op = "batch-sync" /\ q.pc \in {"update", "done"} /\ q.cards # <<>>
                 => /\ Len(q.results) = Len(q.cards)
                    /\ \A k \in DOMAIN q.cards : q.results[k].contactId = q.cards[k])
  /\ [][cardApi.pc = "on" => SyncFieldsFollowSuccess]_vars

\* user 1 has batch-synced cards 1 and 2 while the other request only read:
\* the sync of card 1 failed, that of card 2 succeeded; card 1 is as it was
\* and card 2 holds the new contact id
C30_Witness ==
  /\ cardApi.pc = "on"
  /\ cardApi.reqs["r2"].op = "get"
  /\ cardApi.reqs["r1"].op = "batch-sync"
  /\ cardApi.reqs["r1"].cardIds = <<1, 2>>
  /\ cardApi.reqs["r1"].pc = "done"
  /\ cardApi.reqs["r1"].status = 200
  /\ Len(cardApi.reqs["r1"].results) = 2
  /\ ~cardApi.reqs["r1"].results[1].success
  /\ cardApi.reqs["r1"].results[2].success
  /\ cardApi.table[1] = CardTable[1]
  /\ cardApi.table[2].synced_to_google
  /\ cardApi.table[2].google_contact_id = ResourceName("r1", 2)


====
